---- MODULE Spec2Model ----
(***************************************************************************)
(* A model of the Lox tree-walking interpreter: scanner (at the level of   *)
(* lexemes), recursive-descent parser, resolver, environments and          *)
(* evaluator, driven by Lox::run in file mode and in the REPL.             *)
(*                                                                         *)
(* Rust functions are operators of the same name.  A function that takes   *)
(* `&mut self` takes the mutable state as a record and returns the new     *)
(* record together with its result.  A Rust panic (a failed `expect`, an   *)
(* `unimplemented!()`) is the result tag "Panic", which nothing catches.   *)
(***************************************************************************)
EXTENDS Integers, Sequences, FiniteSets, TLC

(***************************************************************************)
(* Tokens                                                                  *)
(***************************************************************************)

\* A token.  `pos` is the index of the token in its token list: the code
\* keeps no such field, and no modelled function reads it; it gives the
\* properties a name for one use site.
Token(token_type, lexeme, line, literal, pos) ==
  [token_type |-> token_type, lexeme |-> lexeme, line |-> line,
   literal |-> literal, pos |-> pos]

NoLiteral == [kind |-> "None"]

KEYWORDS ==
  [and |-> "And", class |-> "Class", else |-> "Else", false |-> "False",
   for |-> "For", fun |-> "Fun", if |-> "If", nil |-> "Nil", or |-> "Or",
   print |-> "Print", return |-> "Return", super |-> "Super",
   this |-> "This", true |-> "True", var |-> "Var", while |-> "While"]

\* The punctuation and operator lexemes of Scanner::scan_token.
Punctuation ==
  ("(" :> "LeftParen") @@ (")" :> "RightParen") @@ ("{" :> "LeftBrace") @@
  ("}" :> "RightBrace") @@ ("," :> "Comma") @@ ("." :> "Dot") @@
  ("-" :> "Minus") @@ ("+" :> "Plus") @@ (";" :> "Semicolon") @@
  ("*" :> "Star") @@ ("!" :> "Bang") @@ ("!=" :> "BangEqual") @@
  ("=" :> "Equal") @@ ("==" :> "EqualEqual") @@ ("<" :> "Less") @@
  ("<=" :> "LessEqual") @@ (">" :> "Greater") @@ (">=" :> "GreaterEqual") @@
  ("/" :> "Slash")

\* The number lexemes the sources of the model use, with their values.
NumberLexemes ==
  ("0" :> 0) @@ ("1" :> 1) @@ ("2" :> 2) @@ ("3" :> 3) @@ ("4" :> 4) @@
  ("5" :> 5) @@ ("6" :> 6) @@ ("7" :> 7) @@ ("10" :> 10) @@ ("100" :> 100)

\* The string lexemes the sources of the model use, with their contents
\* (the lexeme without its quotes).
StringLexemes ==
  ("\"global\"" :> "global") @@ ("\"local\"" :> "local") @@
  ("\"A\"" :> "A") @@ ("\"B\"" :> "B") @@ ("\"x\"" :> "x") @@
  ("\"y\"" :> "y") @@ ("\"\"" :> "")

\* Scanner::scan_token on a source that is already cut into lexemes: the
\* token type of one lexeme.
scan_token(text) ==
  IF text \in DOMAIN Punctuation THEN [token_type |-> Punctuation[text], literal |-> NoLiteral]
  ELSE IF text \in DOMAIN NumberLexemes
    THEN [token_type |-> "Number", literal |-> [kind |-> "Number", n |-> NumberLexemes[text]]]
  ELSE IF text \in DOMAIN StringLexemes
    THEN [token_type |-> "String", literal |-> [kind |-> "String", s |-> StringLexemes[text]]]
  ELSE IF text \in DOMAIN KEYWORDS THEN [token_type |-> KEYWORDS[text], literal |-> NoLiteral]
  ELSE [token_type |-> "Identifier", literal |-> NoLiteral]

\* The line counter of the scanner at the lexeme `current`: it starts at 1
\* for every source and grows at every line break.
scan_line(source, current) ==
  1 + Cardinality({i \in 1 .. current - 1 : source[i] = "\n"})

\* Scanner::scan_tokens: the source is a sequence of lexemes, "\n" being a
\* line break; one token for every other lexeme, and Eof at the end.
scan_tokens(source) ==
  LET starts == SelectSeq([i \in 1 .. Len(source) |-> i], LAMBDA i : source[i] # "\n")
  IN [k \in 1 .. Len(starts) + 1 |->
        IF k > Len(starts)
          THEN Token("Eof", "", scan_line(source, Len(source) + 1), NoLiteral, k)
        ELSE LET t == scan_token(source[starts[k]])
             IN Token(t.token_type, source[starts[k]], scan_line(source, starts[k]),
                      t.literal, k)]

(***************************************************************************)
(* Scanner, character by character                                         *)
(***************************************************************************)

\* Here a source is a sequence of characters (strings of length one), and
\* the lexeme of a token is the sequence of its characters.  Indices are
\* those of the code: `start` and `current` count the characters before the
\* position, so the next character is source[current + 1].  `panic` is the
\* message of a failed `expect`, "" while there was none.  The characters
\* are ASCII, so that byte offsets and character indices agree.

\* What `unwrap_or('\0')` yields: no character of a source.
Nul == ""

IsDigit(c) == c \in {"0", "1", "2", "3", "4", "5", "6", "7", "8", "9"}

\* char::is_alphabetic on the letters the sources are made of.
IsAlphabetic(c) == c \in {"a", "o", "r"}

\* The string of a sequence of characters.
RECURSIVE Text(_)
Text(chars) == IF chars = <<>> THEN "" ELSE Head(chars) \o Text(Tail(chars))

Scanner_new(src) ==
  [source |-> src, tokens |-> <<>>, start |-> 0, current |-> 0, line |-> 1,
   stderr |-> <<>>, panic |-> ""]

Scanner_is_at_end(sc) == sc.current >= Len(sc.source)

\* Scanner::advance; the character it returns is source[current] of the
\* result.
Scanner_advance(sc) ==
  [sc EXCEPT !.current = @ + 1,
             !.panic = IF sc.current + 1 > Len(sc.source)
                         THEN "there is a next char" ELSE @]

Scanner_peek(sc) ==
  IF sc.current < Len(sc.source) THEN sc.source[sc.current + 1] ELSE Nul

Scanner_peek_next(sc) ==
  IF sc.current + 1 < Len(sc.source) THEN sc.source[sc.current + 2] ELSE Nul

\* error::error(self.line, message)
Scanner_error(sc, message) ==
  [sc EXCEPT !.stderr = Append(@, [line |-> sc.line, message |-> message])]

Scanner_add_token(sc, token_type, literal) ==
  IF sc.current > Len(sc.source) THEN [sc EXCEPT !.panic = "Source token is empty"]
  ELSE [sc EXCEPT !.tokens =
          Append(@, Token(token_type, SubSeq(sc.source, sc.start + 1, sc.current),
                          sc.line, literal, 0))]

\* Scanner::match: whether the next character is `expected`, and the
\* scanner after it.
Scanner_matches(sc, expected) ==
  ~Scanner_is_at_end(sc) /\ sc.source[sc.current + 1] = expected

Scanner_match(sc, expected) ==
  IF Scanner_matches(sc, expected) THEN [sc EXCEPT !.current = @ + 1] ELSE sc

RECURSIVE Scanner_string_loop(_)
Scanner_string_loop(sc) ==
  IF Scanner_peek(sc) # "\"" /\ ~Scanner_is_at_end(sc)
    THEN Scanner_string_loop(
           Scanner_advance([sc EXCEPT !.line = IF Scanner_peek(sc) = "\n"
                                                 THEN @ + 1 ELSE @]))
  ELSE sc

\* Scanner::string with the loop done: the report at the end of the
\* source, the advance over the closing quote, and the token.
Scanner_string_close(sc) ==
  LET closed == Scanner_advance(IF Scanner_is_at_end(sc)
                                  THEN Scanner_error(sc, "Unterminated string")
                                  ELSE sc)
  IN IF closed.panic # "" THEN closed
     ELSE IF closed.start + 1 > closed.current - 1
       THEN [closed EXCEPT !.panic = "Unexpected string end."]
     ELSE Scanner_add_token(closed, "String",
            [kind |-> "String",
             s |-> SubSeq(closed.source, closed.start + 2, closed.current - 1)])

Scanner_string(sc) == Scanner_string_close(Scanner_string_loop(sc))

RECURSIVE Scanner_digits(_)
Scanner_digits(sc) ==
  IF IsDigit(Scanner_peek(sc)) THEN Scanner_digits(Scanner_advance(sc)) ELSE sc

Scanner_fraction(sc) ==
  IF Scanner_peek(sc) = "." /\ IsDigit(Scanner_peek_next(sc))
    THEN Scanner_digits(Scanner_advance(sc))
  ELSE sc

\* Scanner::number with the digits consumed.  The literal is the text that
\* `parse` is given: digits, or digits, a point and digits, which it never
\* rejects.
Scanner_number_token(sc) ==
  Scanner_add_token(sc, "Number",
    [kind |-> "Number", text |-> SubSeq(sc.source, sc.start + 1, sc.current)])

Scanner_number(sc) == Scanner_number_token(Scanner_fraction(Scanner_digits(sc)))

RECURSIVE Scanner_identifier_loop(_)
Scanner_identifier_loop(sc) ==
  IF IsAlphabetic(Scanner_peek(sc)) \/ IsDigit(Scanner_peek(sc)) \/ Scanner_peek(sc) = "_"
    THEN Scanner_identifier_loop(Scanner_advance(sc))
  ELSE sc

Scanner_identifier_token(sc, text) ==
  Scanner_add_token(sc, IF text \in DOMAIN KEYWORDS THEN KEYWORDS[text] ELSE "Identifier",
                    NoLiteral)

Scanner_identifier_text(sc) ==
  Scanner_identifier_token(sc, Text(SubSeq(sc.source, sc.start + 1, sc.current)))

Scanner_identifier(sc) == Scanner_identifier_text(Scanner_identifier_loop(sc))

RECURSIVE Scanner_comment(_)
Scanner_comment(sc) ==
  IF Scanner_peek(sc) # "\n" /\ ~Scanner_is_at_end(sc)
    THEN Scanner_comment(Scanner_advance(sc))
  ELSE sc

\* The arm of Scanner::scan_token for the character `c` that advance has
\* returned.
Scanner_scan_char(sc, c) ==
  CASE c \in {"(", ")", "{", "}", ",", ".", "-", "+", ";", "*"} ->
         Scanner_add_token(sc, Punctuation[c], NoLiteral)
    [] c \in {"!", "=", "<", ">"} ->
         IF Scanner_matches(sc, "=")
           THEN Scanner_add_token(Scanner_match(sc, "="), Punctuation[c \o "="], NoLiteral)
           ELSE Scanner_add_token(sc, Punctuation[c], NoLiteral)
    [] c = "/" ->
         IF Scanner_matches(sc, "/") THEN Scanner_comment(Scanner_match(sc, "/"))
         ELSE Scanner_add_token(sc, "Slash", NoLiteral)
    [] c \in {" ", "\t", "\r"} -> sc
    [] c = "\n" -> [sc EXCEPT !.line = @ + 1]
    [] c = "\"" -> Scanner_string(sc)
    [] OTHER ->
         IF IsDigit(c) THEN Scanner_number(sc)
         ELSE IF IsAlphabetic(c) \/ c = "_" THEN Scanner_identifier(sc)
         ELSE Scanner_error(sc, "Unexpected character.")

Scanner_scan_advanced(sc) ==
  IF sc.panic # "" THEN sc ELSE Scanner_scan_char(sc, sc.source[sc.current])

Scanner_scan_token(sc) == Scanner_scan_advanced(Scanner_advance(sc))

\* The push of Eof at the end of Scanner::scan_tokens.
Scanner_eof(sc) ==
  [sc EXCEPT !.tokens = Append(@, Token("Eof", <<>>, sc.line, NoLiteral, 0))]

(***************************************************************************)
(* Parser                                                                  *)
(***************************************************************************)

\* The state of a Parser: the token list, the cursor (0-based as in the
\* code), and what parsing has written to the two output streams.
Parser_new(tokens) ==
  [tokens |-> tokens, current |-> 0, stdout |-> <<>>, stderr |-> <<>>]

NoNode == [type |-> "None"]

POk(p, v) == [p |-> p, r |-> "Ok", v |-> v]
PErr(p) == [p |-> p, r |-> "Parse", v |-> NoNode]
PPanic(p) == [p |-> p, r |-> "Panic", v |-> NoNode]

peek(p) == p.tokens[p.current + 1]
previous(p) == p.tokens[p.current]
is_at_end(p) == peek(p).token_type = "Eof"
check(p, token_type) == IF is_at_end(p) THEN FALSE ELSE peek(p).token_type = token_type
checks(p, token_types) == \E t \in token_types : check(p, t)
advance(p) == IF ~is_at_end(p) THEN [p EXCEPT !.current = @ + 1] ELSE p

\* Parser::error with error::parser_error: one line on standard error.
error(p, token, msg) ==
  [p EXCEPT !.stderr = Append(@, [line |-> token.line, message |-> msg])]

consume(p, token_type, msg) ==
  IF check(p, token_type) THEN POk(advance(p), previous(advance(p)))
  ELSE PErr(error(p, peek(p), msg))

MaxArity == 255

RECURSIVE synchronize_loop(_)
synchronize_loop(p) ==
  IF is_at_end(p) THEN p
  ELSE IF previous(p).token_type = "Semicolon" THEN p
  ELSE IF peek(p).token_type \in {"Fun", "Var", "For", "If", "While", "Print", "Return"} THEN p
  ELSE synchronize_loop(advance(p))

synchronize(p) == synchronize_loop(advance(p))

RECURSIVE expression(_), assignment(_), logic_or(_), logic_or_loop(_, _, _),
          logic_and(_), logic_and_loop(_, _, _), equality(_), equality_loop(_, _, _),
          comparison(_), comparison_loop(_, _, _), term(_), term_loop(_, _, _),
          factor(_), factor_loop(_, _, _), unary(_), call(_), call_loop(_, _),
          finish_call(_, _), finish_call_loop(_, _), primary(_),
          declaration(_), class_declaration(_), class_declaration_loop(_, _),
          function(_, _), function_params(_, _), statement(_),
          return_statement(_), if_statement(_), block(_), block_loop(_, _),
          while_statement(_), for_statement(_), var_declaration(_),
          print_statement(_), expression_statement(_)

\* The `?` of Rust: an error is returned at once, and F goes on with an Ok.
Try(result, F(_)) == IF result.r # "Ok" THEN result ELSE F(result)

\* Expr::Binary and Expr::Logical.
BinaryNode(node, left, operator, right) ==
  [type |-> node, left |-> left, operator |-> operator, right |-> right]

\* `expr = Binary { left: expr, operator, right }`, or the first operand
\* when there is no operator yet.
Operand(node, left, operator, right) ==
  IF operator = NoNode THEN right ELSE BinaryNode(node, left, operator, right)

expression(p) == assignment(p)

assignment(p) ==
  Try(logic_or(p), LAMBDA e :
    IF ~check(e.p, "Equal") THEN e
    ELSE Try(assignment(advance(e.p)), LAMBDA value :
      IF e.v.type = "Variable"
        THEN POk(value.p, [type |-> "Assign", name |-> e.v.name, value |-> value.v])
      ELSE IF e.v.type = "Get"
        THEN POk(value.p, [type |-> "Set", object |-> e.v.object, name |-> e.v.name,
                           value |-> value.v])
      ELSE POk(error(value.p, previous(value.p), "Invalid assignment target."), e.v)))

\* The loops of the binary rules: an operand is parsed, joined to the
\* expression so far by the operator before it (none for the first one),
\* and while an operator of the rule follows it is consumed and the loop
\* goes round.
logic_or_loop(p, left, operator) ==
  Try(logic_and(p), LAMBDA right :
    IF check(right.p, "Or")
      THEN logic_or_loop(advance(right.p), Operand("Logical", left, operator, right.v),
                         previous(advance(right.p)))
    ELSE POk(right.p, Operand("Logical", left, operator, right.v)))

logic_or(p) == logic_or_loop(p, NoNode, NoNode)

\* The loop of logic_and tests TokenType::Or (parser.rs:346).
logic_and_loop(p, left, operator) ==
  Try(equality(p), LAMBDA right :
    IF check(right.p, "Or")
      THEN logic_and_loop(advance(right.p), Operand("Logical", left, operator, right.v),
                          previous(advance(right.p)))
    ELSE POk(right.p, Operand("Logical", left, operator, right.v)))

logic_and(p) == logic_and_loop(p, NoNode, NoNode)

equality_loop(p, left, operator) ==
  Try(comparison(p), LAMBDA right :
    IF checks(right.p, {"BangEqual", "EqualEqual"})
      THEN equality_loop(advance(right.p), Operand("Binary", left, operator, right.v),
                         previous(advance(right.p)))
    ELSE POk(right.p, Operand("Binary", left, operator, right.v)))

equality(p) == equality_loop(p, NoNode, NoNode)

comparison_loop(p, left, operator) ==
  Try(term(p), LAMBDA right :
    IF checks(right.p, {"GreaterEqual", "Greater", "LessEqual", "Less"})
      THEN comparison_loop(advance(right.p), Operand("Binary", left, operator, right.v),
                           previous(advance(right.p)))
    ELSE POk(right.p, Operand("Binary", left, operator, right.v)))

comparison(p) == comparison_loop(p, NoNode, NoNode)

term_loop(p, left, operator) ==
  Try(factor(p), LAMBDA right :
    IF checks(right.p, {"Minus", "Plus"})
      THEN term_loop(advance(right.p), Operand("Binary", left, operator, right.v),
                     previous(advance(right.p)))
    ELSE POk(right.p, Operand("Binary", left, operator, right.v)))

term(p) == term_loop(p, NoNode, NoNode)

\* Each turn of the loop of factor writes to standard output (parser.rs:430).
factor_loop(p, left, operator) ==
  Try(unary(p), LAMBDA right :
    IF checks(right.p, {"Slash", "Star"})
      THEN factor_loop([advance(right.p) EXCEPT
                          !.stdout = Append(@, "In the while in factor")],
                       Operand("Binary", left, operator, right.v),
                       previous(advance(right.p)))
    ELSE POk(right.p, Operand("Binary", left, operator, right.v)))

factor(p) == factor_loop(p, NoNode, NoNode)

unary(p) ==
  IF checks(p, {"Bang", "Minus"})
    THEN Try(unary(advance(p)), LAMBDA right :
           POk(right.p, [type |-> "Unary", operator |-> previous(advance(p)),
                         right |-> right.v]))
  ELSE call(p)

call_loop(p, expr) ==
  IF check(p, "LeftParen")
    THEN Try(finish_call(advance(p), expr), LAMBDA c : call_loop(c.p, c.v))
  ELSE IF check(p, "Dot")
    THEN Try(consume(advance(p), "Identifier", "Expect property after '.'."),
             LAMBDA name : call_loop(name.p, [type |-> "Get", object |-> expr,
                                              name |-> name.v]))
  ELSE POk(p, expr)

call(p) == Try(primary(p), LAMBDA e : call_loop(e.p, e.v))

finish_call_loop(p, arguments) ==
  Try(expression(IF Len(arguments) >= MaxArity
                   THEN error(p, peek(p), "Can't have more than 255 arguments.")
                   ELSE p),
      LAMBDA argument :
        IF check(argument.p, "Comma")
          THEN finish_call_loop(advance(argument.p), Append(arguments, argument.v))
        ELSE POk(argument.p, Append(arguments, argument.v)))

finish_call(p, calle) ==
  Try(IF ~check(p, "RightParen") THEN finish_call_loop(p, <<>>) ELSE POk(p, <<>>),
      LAMBDA arguments :
        Try(consume(arguments.p, "RightParen", "Expect ')' after arguments."),
            LAMBDA paren :
              POk(paren.p, [type |-> "Call", callee |-> calle, paren |-> paren.v,
                            arguments |-> arguments.v])))

Literal(value) == [type |-> "Literal", value |-> value]

\* The arm of primary for a token of the type `t`, which is peek(p).
primary_arm(p, t) ==
  CASE t.token_type = "False" -> POk(advance(p), Literal([kind |-> "Boolean", b |-> FALSE]))
    [] t.token_type = "True" -> POk(advance(p), Literal([kind |-> "Boolean", b |-> TRUE]))
    [] t.token_type = "Nil" -> POk(advance(p), Literal([kind |-> "Null"]))
    [] t.token_type = "Number" -> POk(advance(p), Literal(t.literal))
    [] t.token_type = "String" -> POk(advance(p), Literal(t.literal))
    [] t.token_type = "LeftParen" ->
         \* expression() is entered with the cursor still on the "(", so
         \* primary() is reached again in the same state: the recursion
         \* never ends and the process dies of stack exhaustion.
         PPanic(p)
    [] t.token_type = "Identifier" -> POk(advance(p), [type |-> "Variable", name |-> t])
    [] t.token_type = "This" -> POk(advance(p), [type |-> "This", keyword |-> t])
    [] t.token_type = "Super" ->
         Try(consume(advance(p), "Dot", "Expect '.' after 'super'."), LAMBDA dot :
           Try(consume(dot.p, "Identifier", "Expect superclass method name."),
               LAMBDA method :
                 POk(method.p, [type |-> "Super", keyword |-> t, method |-> method.v])))
    [] OTHER -> PErr(error(p, t, "Expect expression"))

primary(p) == primary_arm(p, peek(p))

print_statement(p) ==
  Try(expression(p), LAMBDA value :
    Try(consume(value.p, "Semicolon", "Expected ; after value."), LAMBDA c :
      POk(c.p, [type |-> "Print", expression |-> value.v])))

expression_statement(p) ==
  Try(expression(p), LAMBDA value :
    Try(consume(value.p, "Semicolon", "Expected ; after value."), LAMBDA c :
      POk(c.p, [type |-> "Expression", expression |-> value.v])))

var_declaration(p) ==
  Try(consume(p, "Identifier", "Expected variable name."), LAMBDA name :
    Try(IF check(name.p, "Equal") THEN expression(advance(name.p))
        ELSE POk(name.p, NoNode),
        LAMBDA initializer :
          Try(consume(initializer.p, "Semicolon", "Expected ; after variable declaration."),
              LAMBDA c :
                POk(c.p, [type |-> "Var", name |-> name.v,
                          initializer |-> initializer.v]))))

\* `keyword` is previous(): the caller has just consumed the `return`.
return_statement(p) ==
  Try(IF ~check(p, "Semicolon") THEN expression(p) ELSE POk(p, NoNode), LAMBDA value :
    Try(consume(value.p, "Semicolon", "Expect ';' after return value."), LAMBDA c :
      POk(c.p, [type |-> "Return", keyword |-> previous(p), value |-> value.v])))

if_statement(p) ==
  Try(consume(p, "LeftParen", "Expect '(' after 'if'."), LAMBDA lp :
    Try(expression(lp.p), LAMBDA condition :
      Try(consume(condition.p, "RightParen", "Expect ')' after if condition."),
          LAMBDA rp :
            Try(statement(rp.p), LAMBDA then_branch :
              Try(IF check(then_branch.p, "Else")
                    THEN statement(advance(then_branch.p))
                    ELSE POk(then_branch.p, NoNode),
                  LAMBDA else_branch :
                    POk(else_branch.p, [type |-> "If", condition |-> condition.v,
                                        then_branch |-> then_branch.v,
                                        else_branch |-> else_branch.v]))))))

while_statement(p) ==
  Try(consume(p, "LeftParen", "Expect '(' after 'while'."), LAMBDA lp :
    Try(expression(lp.p), LAMBDA condition :
      Try(consume(condition.p, "RightParen", "Expect ')' after condition."), LAMBDA rp :
        Try(statement(rp.p), LAMBDA body :
          POk(body.p, [type |-> "While", condition |-> condition.v,
                       body |-> body.v])))))

\* The desugaring of `for`: the body with the increment after it, in a
\* `while` on the condition (or on `true`), after the initializer.
for_desugar(initializer, condition, increment, body) ==
  LET body1 == IF increment # NoNode
                 THEN [type |-> "Block",
                       statements |-> <<body, [type |-> "Expression",
                                               expression |-> increment]>>]
                 ELSE body
      body2 == [type |-> "While",
                condition |-> IF condition # NoNode THEN condition
                              ELSE Literal([kind |-> "Boolean", b |-> TRUE]),
                body |-> body1]
  IN IF initializer # NoNode
       THEN [type |-> "Block", statements |-> <<initializer, body2>>]
       ELSE body2

for_statement(p) ==
  Try(consume(p, "LeftParen", "Expected '(' after 'for'."), LAMBDA lp :
    Try(IF check(lp.p, "Semicolon") THEN POk(advance(lp.p), NoNode)
        ELSE IF check(lp.p, "Var") THEN var_declaration(advance(lp.p))
        ELSE expression_statement(lp.p),
        LAMBDA initializer :
    Try(IF ~check(initializer.p, "Semicolon") THEN expression(initializer.p)
        ELSE POk(initializer.p, NoNode),
        LAMBDA condition :
    Try(consume(condition.p, "Semicolon", "Expect ';' after loop condition."),
        LAMBDA semi :
    Try(IF ~check(semi.p, "RightParen") THEN expression(semi.p)
        ELSE POk(semi.p, NoNode),
        LAMBDA increment :
    Try(consume(increment.p, "RightParen", "Expect ')' after for clauses."),
        LAMBDA rp :
    Try(statement(rp.p), LAMBDA body :
      POk(body.p, for_desugar(initializer.v, condition.v, increment.v, body.v)))))))))

block_loop(p, statements) ==
  IF ~check(p, "RightBrace") /\ ~is_at_end(p)
    THEN Try(declaration(p), LAMBDA d : block_loop(d.p, Append(statements, d.v)))
  ELSE POk(p, statements)

block(p) ==
  Try(block_loop(p, <<>>), LAMBDA statements :
    Try(consume(statements.p, "RightBrace", "Expect '}' after block."), LAMBDA c :
      POk(c.p, statements.v)))

statement(p) ==
  IF check(p, "For") THEN for_statement(advance(p))
  ELSE IF check(p, "If") THEN if_statement(advance(p))
  ELSE IF check(p, "Print") THEN print_statement(advance(p))
  ELSE IF check(p, "Return") THEN return_statement(advance(p))
  ELSE IF check(p, "While") THEN while_statement(advance(p))
  ELSE IF check(p, "LeftBrace")
    THEN Try(block(advance(p)), LAMBDA b :
           POk(b.p, [type |-> "Block", statements |-> b.v]))
  ELSE expression_statement(p)

function_params(p, params) ==
  Try(consume(IF Len(params) >= MaxArity
                THEN error(p, peek(p), "Can't have more than 255 parameters.")
                ELSE p,
              "Identifier", "Expect parameter name."),
      LAMBDA param :
        IF check(param.p, "Comma")
          THEN function_params(advance(param.p), Append(params, param.v))
        ELSE POk(param.p, Append(params, param.v)))

function(p, kind) ==
  Try(consume(p, "Identifier", "Expect " \o kind \o " name."), LAMBDA name :
    Try(consume(name.p, "LeftParen", "Expect '(' after " \o kind \o " name."),
        LAMBDA lp :
    Try(IF ~check(lp.p, "RightParen") THEN function_params(lp.p, <<>>)
        ELSE POk(lp.p, <<>>),
        LAMBDA params :
    Try(consume(params.p, "RightParen", "Expect ')' after parameters."), LAMBDA rp :
    Try(consume(rp.p, "LeftBrace", "Expected '{' before " \o kind \o " body"),
        LAMBDA lb :
    Try(block(lb.p), LAMBDA body :
      POk(body.p, [type |-> "Function", name |-> name.v, params |-> params.v,
                   body |-> body.v])))))))

class_declaration_loop(p, methods) ==
  IF ~check(p, "RightBrace") /\ ~is_at_end(p)
    THEN Try(function(p, "method"), LAMBDA m :
           class_declaration_loop(m.p, Append(methods, m.v)))
  ELSE POk(p, methods)

class_declaration(p) ==
  Try(consume(p, "Identifier", "Expect class name."), LAMBDA name :
    Try(IF check(name.p, "Less")
          THEN consume(advance(name.p), "Identifier", "Expect superclass name.")
          ELSE POk(name.p, NoNode),
        LAMBDA superclass :
    Try(consume(superclass.p, "LeftBrace", "Expect '{' before class body."),
        LAMBDA lb :
    Try(class_declaration_loop(lb.p, <<>>), LAMBDA methods :
    Try(consume(methods.p, "RightBrace", "Expect '}' after class body."), LAMBDA rb :
      POk(rb.p, [type |-> "Class", name |-> name.v,
                 superclass |-> IF superclass.v = NoNode THEN NoNode
                                ELSE [type |-> "Variable", name |-> superclass.v],
                 methods |-> methods.v]))))))

\* `Err(Error::Parse) => { self.synchronize(); Ok(Stmt::Null) }`: nothing is
\* kept of the fact that an error occurred.
recover(stmt) ==
  IF stmt.r = "Parse" THEN POk(synchronize(stmt.p), [type |-> "Null"]) ELSE stmt

declaration(p) ==
  recover(IF check(p, "Var") THEN var_declaration(advance(p))
          ELSE IF check(p, "Class") THEN class_declaration(advance(p))
          ELSE IF check(p, "Fun") THEN function(advance(p), "function")
          ELSE statement(p))

RECURSIVE parse_loop(_, _)
parse_loop(p, statements) ==
  IF ~is_at_end(p)
    THEN Try(declaration(p), LAMBDA d : parse_loop(d.p, Append(statements, d.v)))
  ELSE POk(p, statements)

parse(p) == parse_loop(p, <<>>)

(***************************************************************************)
(* Resolver                                                                *)
(***************************************************************************)

\* The identity of a token as a key of Interpreter::locals: its lexeme and
\* its line.
TokenKey(name) == <<name.lexeme, name.line>>

\* Interpreter::resolve: locals.insert(name, depth).
Interpreter_resolve(locals, name, depth) ==
  [k \in DOMAIN locals \cup {TokenKey(name)} |->
     IF k = TokenKey(name) THEN depth ELSE locals[k]]

\* HashMap::insert on a map from names.
Insert(map, key, value) ==
  [k \in DOMAIN map \cup {key} |-> IF k = key THEN value ELSE map[k]]

EmptyMap == [k \in {} |-> 0]

\* The state of a Resolver with the side table of the interpreter it holds.
\* `panic` is set when the walk meets `unimplemented!()`.  `lexical` is not
\* in the code: it maps the position of a use site to the index of the
\* innermost scope that declares its name, for the properties to compare
\* the side table with.  `unbalanced` is not in the code either: it is set
\* when a statement has been resolved and the scope stack, current_function
\* or current_class is not what it was before the statement.
Resolver_new(locals, lexical) ==
  [scopes |-> <<>>, current_function |-> "None", current_class |-> "None",
   had_error |-> FALSE, stderr |-> <<>>, panic |-> FALSE,
   locals |-> locals, lexical |-> lexical, unbalanced |-> FALSE]

begin_scope(rs) == [rs EXCEPT !.scopes = Append(@, EmptyMap)]
end_scope(rs) == [rs EXCEPT !.scopes = SubSeq(@, 1, Len(@) - 1)]

Resolver_error(rs, token, message) ==
  [rs EXCEPT !.stderr = Append(@, [line |-> token.line, message |-> message]),
             !.had_error = TRUE]

\* declare without the report.
declare_unreported(rs, name) ==
  IF rs.scopes = <<>> THEN rs
  ELSE [rs EXCEPT !.scopes[Len(rs.scopes)] = Insert(@, name.lexeme, FALSE)]

declare(rs, name) ==
  IF rs.scopes = <<>> THEN rs
  ELSE LET scope == rs.scopes[Len(rs.scopes)]
           already_defined == name.lexeme \in DOMAIN scope
           rs1 == [rs EXCEPT !.scopes[Len(rs.scopes)] = Insert(scope, name.lexeme, FALSE)]
       IN IF already_defined
            THEN Resolver_error(rs1, name,
                   "Variable with this name already declared in this scope.")
            ELSE rs1

define(rs, name) ==
  IF rs.scopes = <<>> THEN rs
  ELSE [rs EXCEPT !.scopes[Len(rs.scopes)] = Insert(@, name.lexeme, TRUE)]

\* The indices (0 = innermost) of the scopes that contain the name.
ScopesWith(rs, lexeme) ==
  {i \in 0 .. Len(rs.scopes) - 1 : lexeme \in DOMAIN rs.scopes[Len(rs.scopes) - i]}

Min(S) == CHOOSE x \in S : \A y \in S : x <= y

\* The loop of resolve_local does not stop at the first scope that contains
\* the name: it calls Interpreter::resolve for every such scope, innermost
\* first, and every call overwrites the entry of the one before.
RECURSIVE resolve_local_from(_, _, _)
resolve_local_from(rs, name, i) ==
  IF i >= Len(rs.scopes) THEN rs
  ELSE IF name.lexeme \in DOMAIN rs.scopes[Len(rs.scopes) - i]
    THEN resolve_local_from([rs EXCEPT !.locals = Interpreter_resolve(@, name, i)],
                            name, i + 1)
  ELSE resolve_local_from(rs, name, i + 1)

resolve_local(rs, name) ==
  LET hits == ScopesWith(rs, name.lexeme)
      rs1 == IF hits = {} THEN rs
             ELSE [rs EXCEPT !.lexical = Insert(@, name.pos, Min(hits))]
  IN resolve_local_from(rs1, name, 0)

RECURSIVE resolve_stmt(_, _), resolve_stmts(_, _), resolve_expr(_, _),
          Resolver_accept(_, _),
          resolve_exprs(_, _), resolve_function(_, _, _, _),
          resolve_methods(_, _), resolve_params(_, _)

resolve_params(rs, params) ==
  IF params = <<>> THEN rs
  ELSE resolve_params(define(declare(rs, Head(params)), Head(params)), Tail(params))

\* resolve_function that leaves current_function as the body had it.
resolve_function_keeping(rs, params, body, tpe) ==
  LET rs1 == begin_scope([rs EXCEPT !.current_function = tpe])
      rs2 == resolve_params(rs1, params)
      rs3 == resolve_stmts(rs2, body)
  IN IF rs3.panic THEN rs3 ELSE end_scope(rs3)

resolve_function(rs, params, body, tpe) ==
  LET enclosing_function == rs.current_function
      rs1 == begin_scope([rs EXCEPT !.current_function = tpe])
      rs2 == resolve_params(rs1, params)
      rs3 == resolve_stmts(rs2, body)
  IN IF rs3.panic THEN rs3
     ELSE [end_scope(rs3) EXCEPT !.current_function = enclosing_function]

Resolver_visit_variable_expr(rs, name) ==
  LET rs1 == IF rs.scopes # <<>>
                /\ name.lexeme \in DOMAIN rs.scopes[Len(rs.scopes)]
                /\ rs.scopes[Len(rs.scopes)][name.lexeme] = FALSE
               THEN Resolver_error(rs, name,
                      "Cannot read local variable in its own initializer.")
               ELSE rs
  IN resolve_local(rs1, name)

Resolver_visit_super_expr(rs, keyword) ==
  IF rs.current_class = "None"
    THEN Resolver_error(rs, keyword, "Cannot use 'super' outside of a class.")
  ELSE IF rs.current_class = "Class"
    THEN Resolver_error(rs, keyword, "Cannot use 'super' in a class with no superclass.")
  ELSE resolve_local(rs, keyword)

Resolver_visit_this_expr(rs, keyword) ==
  IF rs.current_class = "None"
    THEN Resolver_error(rs, keyword, "Cannot use 'this' outside of a class.")
  ELSE resolve_local(rs, keyword)

resolve_exprs(rs, exprs) ==
  IF exprs = <<>> THEN rs
  ELSE resolve_exprs(resolve_expr(rs, Head(exprs)), Tail(exprs))

\* Expr::accept with the expression visitor of the resolver.
resolve_expr(rs, e) ==
  IF rs.panic THEN rs ELSE
  CASE e.type = "Variable" -> Resolver_visit_variable_expr(rs, e.name)
    [] e.type = "Assign" -> resolve_local(resolve_expr(rs, e.value), e.name)
    [] e.type \in {"Binary", "Logical"} -> resolve_expr(resolve_expr(rs, e.left), e.right)
    [] e.type = "Get" -> resolve_expr(rs, e.object)
    [] e.type = "Set" -> resolve_expr(resolve_expr(rs, e.value), e.object)
    [] e.type = "Super" -> Resolver_visit_super_expr(rs, e.keyword)
    [] e.type = "This" -> Resolver_visit_this_expr(rs, e.keyword)
    [] e.type = "Call" -> resolve_exprs(resolve_expr(rs, e.callee), e.arguments)
    [] e.type = "Grouping" -> resolve_expr(rs, e.expression)
    [] e.type = "Literal" -> rs
    [] e.type = "Unary" -> resolve_expr(rs, e.right)

resolve_methods(rs, methods) ==
  IF methods = <<>> \/ rs.panic THEN rs
  ELSE LET method == Head(methods)
           tpe == IF method.name.lexeme = "init" THEN "Initializer" ELSE "Method"
       IN resolve_methods(resolve_function(rs, method.params, method.body, tpe),
                          Tail(methods))

\* visit_class_stmt that ends one scope, with or without a superclass.
Resolver_visit_class_stmt_one_end(rs, name, superclass, methods) ==
  LET enclosing_class == rs.current_class
      rs1 == define(declare([rs EXCEPT !.current_class = "Class"], name), name)
      rs2 == IF superclass.type = "Variable"
               THEN LET a == IF name.lexeme = superclass.name.lexeme
                               THEN Resolver_error(rs1, superclass.name,
                                      "A class cannot inherit from itself.")
                               ELSE rs1
                        b == resolve_local([a EXCEPT !.current_class = "SubClass"],
                                           superclass.name)
                        c == begin_scope(b)
                    IN [c EXCEPT !.scopes[Len(c.scopes)] = Insert(@, "super", TRUE)]
               ELSE rs1
      rs3 == begin_scope(rs2)
      rs4 == [rs3 EXCEPT !.scopes[Len(rs3.scopes)] = Insert(@, "this", TRUE)]
      rs5 == resolve_methods(rs4, methods)
  IN IF rs5.panic THEN rs5
     ELSE [end_scope(rs5) EXCEPT !.current_class = enclosing_class]

Resolver_visit_class_stmt(rs, name, superclass, methods) ==
  LET enclosing_class == rs.current_class
      rs1 == define(declare([rs EXCEPT !.current_class = "Class"], name), name)
      rs2 == IF superclass.type = "Variable"
               THEN LET a == IF name.lexeme = superclass.name.lexeme
                               THEN Resolver_error(rs1, superclass.name,
                                      "A class cannot inherit from itself.")
                               ELSE rs1
                        b == resolve_local([a EXCEPT !.current_class = "SubClass"],
                                           superclass.name)
                        c == begin_scope(b)
                    IN [c EXCEPT !.scopes[Len(c.scopes)] = Insert(@, "super", TRUE)]
               ELSE rs1
      rs3 == begin_scope(rs2)
      rs4 == [rs3 EXCEPT !.scopes[Len(rs3.scopes)] = Insert(@, "this", TRUE)]
      rs5 == resolve_methods(rs4, methods)
      rs6 == IF superclass.type # "None" THEN end_scope(rs5) ELSE rs5
  IN IF rs5.panic THEN rs5
     ELSE [end_scope(rs6) EXCEPT !.current_class = enclosing_class]

Resolver_visit_return_stmt(rs, keyword, value) ==
  LET rs1 == IF rs.current_function = "None"
               THEN Resolver_error(rs, keyword, "Cannot return from top-level code.")
               ELSE rs
  IN IF value.type # "None"
       THEN resolve_expr(IF rs1.current_function = "Initializer"
                           THEN Resolver_error(rs1, keyword,
                                  "Can't return a value from an initializer.")
                           ELSE rs1,
                         value)
       ELSE rs1

Resolver_visit_var_stmt(rs, name, initializer) ==
  LET rs1 == declare(rs, name)
      rs2 == IF initializer.type # "None" THEN resolve_expr(rs1, initializer) ELSE rs1
  IN IF rs2.panic THEN rs2 ELSE define(rs2, name)

Resolver_visit_block_stmt(rs, statements) ==
  LET rs1 == resolve_stmts(begin_scope(rs), statements)
  IN IF rs1.panic THEN rs1 ELSE end_scope(rs1)

\* Stmt::accept with the statement visitor of the resolver; Stmt::Null is
\* `unimplemented!()` (syntax.rs:225).
Resolver_accept(rs, st) ==
  IF rs.panic THEN rs ELSE
  CASE st.type = "Block" -> Resolver_visit_block_stmt(rs, st.statements)
    [] st.type = "Class" -> Resolver_visit_class_stmt(rs, st.name, st.superclass, st.methods)
    [] st.type = "Expression" -> resolve_expr(rs, st.expression)
    [] st.type = "If" ->
         LET rs1 == resolve_stmt(resolve_expr(rs, st.condition), st.then_branch)
         IN IF st.else_branch.type # "None" THEN resolve_stmt(rs1, st.else_branch) ELSE rs1
    [] st.type = "Print" -> resolve_expr(rs, st.expression)
    [] st.type = "Return" -> Resolver_visit_return_stmt(rs, st.keyword, st.value)
    [] st.type = "While" -> resolve_stmt(resolve_expr(rs, st.condition), st.body)
    [] st.type = "Var" -> Resolver_visit_var_stmt(rs, st.name, st.initializer)
    [] st.type = "Function" ->
         resolve_function(define(declare(rs, st.name), st.name), st.params, st.body,
                          "Function")
    [] st.type = "Null" -> [rs EXCEPT !.panic = TRUE]

\* What the properties keep of a statement that has been resolved from the
\* resolver `before`.
resolved(rs, before) ==
  IF rs.panic THEN rs
  ELSE [rs EXCEPT !.unbalanced = \/ @
                                 \/ Len(rs.scopes) # Len(before.scopes)
                                 \/ rs.current_function # before.current_function
                                 \/ rs.current_class # before.current_class]

\* Resolver::resolve_stmt.
resolve_stmt(rs, st) == resolved(Resolver_accept(rs, st), rs)

resolve_stmts(rs, statements) ==
  IF statements = <<>> THEN rs
  ELSE resolve_stmts(resolve_stmt(rs, Head(statements)), Tail(statements))

(***************************************************************************)
(* Environments                                                            *)
(***************************************************************************)

\* Environments live in a heap `envs`, a sequence; an Rc<RefCell<Environment>>
\* is an index into it and `enclosing: None` is 0.
Environment_new == [values |-> EmptyMap, enclosing |-> 0]
Environment_from(enclosing) == [values |-> EmptyMap, enclosing |-> enclosing]

Environment_define(envs, env, name, value) ==
  [envs EXCEPT ![env].values = Insert(@, name, value)]

RuntimeError(token, message) == [token |-> token, message |-> message]

RECURSIVE Environment_get(_, _, _)
Environment_get(envs, env, name) ==
  IF name.lexeme \in DOMAIN envs[env].values
    THEN [r |-> "Ok", v |-> envs[env].values[name.lexeme]]
  ELSE IF envs[env].enclosing # 0 THEN Environment_get(envs, envs[env].enclosing, name)
  ELSE [r |-> "Runtime",
        v |-> RuntimeError(name, "Undefined variable '" \o name.lexeme \o "'.")]

\* Environment::ancestor: the first hop, then the hops 1 .. distance-1; the
\* result is 0 when an `expect` on a missing parent fails.
RECURSIVE ancestor_from(_, _, _, _)
ancestor_from(envs, environment, i, distance) ==
  IF i >= distance THEN environment
  ELSE IF envs[environment].enclosing = 0 THEN 0
  ELSE ancestor_from(envs, envs[environment].enclosing, i + 1, distance)

\* An ancestor one link further than asked for.
ancestor_one_further(envs, env, distance) ==
  IF envs[env].enclosing = 0 THEN 0
  ELSE ancestor_from(envs, envs[env].enclosing, 0, distance)

ancestor(envs, env, distance) ==
  IF envs[env].enclosing = 0 THEN 0
  ELSE ancestor_from(envs, envs[env].enclosing, 1, distance)

get_at(envs, env, distance, name) ==
  LET target == IF distance > 0 THEN ancestor(envs, env, distance) ELSE env
  IN IF target = 0 THEN [r |-> "Panic", v |-> "No enclosing environment"]
     ELSE IF name \notin DOMAIN envs[target].values
       THEN [r |-> "Panic", v |-> "Undefined variable"]
     ELSE [r |-> "Ok", v |-> envs[target].values[name]]

RECURSIVE Environment_assign(_, _, _, _)

\* An assign that binds the name in the receiver.
Environment_assign_in_receiver(envs, env, name, value) ==
  [envs |-> Environment_define(envs, env, name.lexeme, value), r |-> "Ok"]

Environment_assign(envs, env, name, value) ==
  IF name.lexeme \in DOMAIN envs[env].values
    THEN [envs |-> [envs EXCEPT ![env].values[name.lexeme] = value], r |-> "Ok"]
  ELSE IF envs[env].enclosing # 0
    THEN Environment_assign(envs, envs[env].enclosing, name, value)
  ELSE [envs |-> envs, r |-> "Runtime",
        v |-> RuntimeError(name, "Undefined variable '" \o name.lexeme \o "'.")]

assign_at(envs, env, distance, name, value) ==
  LET target == IF distance > 0 THEN ancestor(envs, env, distance) ELSE env
  IN IF target = 0 THEN [envs |-> envs, r |-> "Panic", v |-> "No enclosing environment"]
     ELSE [envs |-> Environment_define(envs, target, name.lexeme, value), r |-> "Ok"]

(***************************************************************************)
(* Runtime values                                                          *)
(***************************************************************************)

Null == [kind |-> "Null"]
Boolean(b) == [kind |-> "Boolean", b |-> b]
Number(n) == [kind |-> "Number", n |-> n]
String(str) == [kind |-> "String", s |-> str]

\* Function::Native: `clock`, the only native function.
Native == [kind |-> "Callable", variant |-> "Native", arity |-> 0]

\* Function::User as the interpreter builds it.
User(name, params, body, closure, is_initializer) ==
  [kind |-> "Callable", variant |-> "User", name |-> name, params |-> params,
   body |-> body, closure |-> closure, is_initializer |-> is_initializer]

\* Object::equals.
equals(left, right) ==
  CASE left.kind = "Null" /\ right.kind = "Null" -> TRUE
    [] left.kind = "Null" \/ right.kind = "Null" -> FALSE
    [] left.kind = "Boolean" /\ right.kind = "Boolean" -> left.b = right.b
    [] left.kind = "Number" /\ right.kind = "Number" -> left.n = right.n
    [] left.kind = "String" /\ right.kind = "String" -> left.s = right.s
    [] OTHER -> FALSE

is_truthy(right) ==
  CASE right.kind = "Null" -> FALSE
    [] right.kind = "Boolean" -> right.b
    [] OTHER -> TRUE

arity(f) == IF f.variant = "Native" THEN f.arity ELSE Len(f.params)

\* LoxClass::find_method: the methods of the class itself.
find_method(class, name) ==
  IF name \in DOMAIN class.methods THEN class.methods[name] ELSE Null

(***************************************************************************)
(* Evaluator                                                               *)
(***************************************************************************)

\* The evaluator works on a record `s`: the Interpreter (globals,
\* environment, locals), the heap it points into (envs, classes, instances),
\* standard output, and the clock reading `now`.  `steps` counts executed
\* statements against MaxSteps.  Five fields are not in the code and are
\* only written, never read, by the modelled functions: `lexical` (from the
\* resolver), `mislookups` (the use sites whose recorded distance was not the
\* lexical one when they were evaluated), `unrestored` (execute_block
\* returned with another current environment than it was entered with),
\* `exits` (the results execute_block has returned with) and `frames` (for
\* each user-function call, the frame made for it, the closure of the callee
\* and the environment of the caller).
MaxSteps == 60

EOk(s, v) == [s |-> s, r |-> "Ok", v |-> v]
ERuntime(s, token, message) == [s |-> s, r |-> "Runtime", v |-> RuntimeError(token, message)]
EReturn(s, value) == [s |-> s, r |-> "Return", v |-> value]
EPanic(s, message) == [s |-> s, r |-> "Panic", v |-> message]
EFuel(s) == [s |-> s, r |-> "Fuel", v |-> Null]

globals == 1

\* f64::to_string on the numbers of the model, which are integers.
stringify(s, object) ==
  CASE object.kind = "Null" -> "nil"
    [] object.kind = "Number" -> ToString(object.n)
    [] object.kind = "Boolean" -> IF object.b THEN "true" ELSE "false"
    [] object.kind = "Class" -> s.classes[object.ref].name
    [] object.kind = "Instance" -> s.classes[s.instances[object.ref].class].name \o " instance"
    [] object.kind = "String" -> object.s
    [] object.kind = "Callable" ->
         IF object.variant = "Native" THEN "<native func>"
         ELSE "<fn " \o object.name.lexeme \o ">"

number_operand_error(s, operator) == ERuntime(s, operator, "Operand must be a number")

\* The distance the resolver should have recorded for the use site, or -1.
LexicalDistance(s, name) ==
  IF name.pos \in DOMAIN s.lexical THEN s.lexical[name.pos] ELSE -1

Observe(s, name, distance) ==
  IF distance # LexicalDistance(s, name)
    THEN [s EXCEPT !.mislookups = @ \cup {name.pos}] ELSE s

\* look_up_variable without the side table: the name is looked up from
\* the current environment outwards.
look_up_variable_dynamic(s, name) ==
  LET g == Environment_get(s.envs, s.environment, name)
  IN [s |-> s, r |-> g.r, v |-> g.v]

look_up_variable(s, name) ==
  IF TokenKey(name) \in DOMAIN s.locals
    THEN LET distance == s.locals[TokenKey(name)]
             g == get_at(s.envs, s.environment, distance, name.lexeme)
         IN [s |-> Observe(s, name, distance), r |-> g.r, v |-> g.v]
  ELSE LET g == Environment_get(s.envs, globals, name)
       IN [s |-> Observe(s, name, -1), r |-> g.r, v |-> g.v]

\* A bind that defines `this` in the closure of the method itself and
\* returns the method.
bind_in_closure(s, f, instance) ==
  [s |-> [s EXCEPT !.envs = Environment_define(@, f.closure, "this", instance)],
   v |-> f]

\* Function::bind: a new environment under the closure, holding `this`.
bind(s, f, instance) ==
  LET environment == Len(s.envs) + 1
      envs1 == Append(s.envs, Environment_from(f.closure))
  IN [s |-> [s EXCEPT !.envs = Environment_define(envs1, environment, "this", instance)],
      v |-> [kind |-> "Callable", variant |-> "User", name |-> f.name,
             params |-> f.params, body |-> f.body, closure |-> environment]]

\* LoxInstance::new.
LoxInstance_new(s, class) ==
  [s |-> [s EXCEPT !.instances = Append(@, [class |-> class, fields |-> EmptyMap])],
   v |-> [kind |-> "Instance", ref |-> Len(s.instances) + 1]]

\* LoxInstance::get.
LoxInstance_get(s, instance, name) ==
  LET self == s.instances[instance.ref]
      method == find_method(s.classes[self.class], name.lexeme)
  IN IF name.lexeme \in DOMAIN self.fields THEN EOk(s, self.fields[name.lexeme])
     ELSE IF method.kind # "Null"
       THEN LET b == bind(s, method, instance) IN EOk(b.s, b.v)
     ELSE ERuntime(s, name, "Undefined property '" \o name.lexeme \o "'.")

\* params.iter().zip(arguments.iter()) with Environment::define.
RECURSIVE define_params(_, _, _, _)
define_params(envs, environment, params, arguments) ==
  IF params = <<>> \/ arguments = <<>> THEN envs
  ELSE define_params(Environment_define(envs, environment, Head(params).lexeme,
                                        Head(arguments)),
                     environment, Tail(params), Tail(arguments))

RECURSIVE evaluate(_, _), evaluate_arguments(_, _, _), execute(_, _),
          execute_stmts(_, _), execute_block(_, _, _), Function_call(_, _, _),
          visit_call_expr(_, _, _, _), visit_binary_expr(_, _, _, _),
          visit_logical_expr(_, _, _, _), visit_set_expr(_, _, _, _),
          visit_assign_expr(_, _, _), visit_while_stmt(_, _, _),
          visit_if_stmt(_, _, _, _), visit_return_stmt(_, _, _)

\* The statements of a list executed to the end, whatever runtime error
\* one of them raises.
execute_stmts_to_the_end(s, statements) ==
  IF statements = <<>> THEN EOk(s, Null)
  ELSE Try([execute(s, Head(statements)) EXCEPT !.r = IF @ = "Runtime" THEN "Ok" ELSE @],
           LAMBDA r : execute_stmts(r.s, Tail(statements)))

\* statements.iter().try_for_each(|statement| self.execute(statement))
execute_stmts(s, statements) ==
  IF statements = <<>> THEN EOk(s, Null)
  ELSE Try(execute(s, Head(statements)), LAMBDA r : execute_stmts(r.s, Tail(statements)))

\* `self.environment = previous` at the end of execute_block.  A panic
\* unwinds through it, and a run that is cut off has not reached it.
restore(result, saved) ==
  IF result.r \in {"Panic", "Fuel"} THEN result
  ELSE [result EXCEPT !.s.environment = saved]

\* What the properties keep of an exit of execute_block, which was entered
\* with the current environment `entered`.
leave(result, entered) ==
  IF result.r \in {"Panic", "Fuel"} THEN result
  ELSE [result EXCEPT !.s.unrestored = @ \/ result.s.environment # entered,
                      !.s.exits = @ \cup {result.r}]

\* execute_block with `?` on the result before the environment is restored.
execute_block_restoring_on_ok(s, statements, environment) ==
  leave(Try(execute_stmts([s EXCEPT !.environment = environment], statements),
            LAMBDA result : restore(result, s.environment)),
        s.environment)

execute_block(s, statements, environment) ==
  leave(restore(execute_stmts([s EXCEPT !.environment = environment], statements),
                s.environment),
        s.environment)

\* The match in Function::call without its arm for Error::Return.
returned_without_catch(result) ==
  IF result.r = "Ok" THEN EOk(result.s, Null) ELSE result

\* The match on the result of execute_block in Function::call.
returned(result) ==
  CASE result.r = "Return" -> EOk(result.s, result.v)
    [] result.r = "Ok" -> EOk(result.s, Null)
    [] OTHER -> result

\* Function::call with the new environment under the environment of the
\* caller instead of the closure.
Function_call_in_caller(s, f, arguments) ==
  IF f.variant = "Native" THEN EOk(s, Number(s.now))
  ELSE LET environment == Len(s.envs) + 1
           envs1 == Append(s.envs, Environment_from(s.environment))
           envs2 == define_params(envs1, environment, f.params, arguments)
           s1 == [s EXCEPT !.envs = envs2,
                           !.frames = Append(@, [frame |-> environment,
                                                 closure |-> f.closure,
                                                 caller |-> s.environment])]
       IN returned(execute_block(s1, f.body, environment))

Function_call(s, f, arguments) ==
  IF f.variant = "Native" THEN EOk(s, Number(s.now))
  ELSE LET environment == Len(s.envs) + 1
           envs1 == Append(s.envs, Environment_from(f.closure))
           envs2 == define_params(envs1, environment, f.params, arguments)
           s1 == [s EXCEPT !.envs = envs2,
                           !.frames = Append(@, [frame |-> environment,
                                                 closure |-> f.closure,
                                                 caller |-> s.environment])]
       IN returned(execute_block(s1, f.body, environment))

\* The arguments evaluated from the last to the first.
evaluate_arguments_from_the_last(s, arguments, values) ==
  IF arguments = <<>> THEN EOk(s, values)
  ELSE Try(evaluate(s, arguments[Len(arguments)]), LAMBDA a :
         evaluate_arguments(a.s, SubSeq(arguments, 1, Len(arguments) - 1),
                            <<a.v>> \o values))

\* arguments.into_iter().map(|expr| self.evaluate(expr)).collect(): the
\* first error ends the iteration.
evaluate_arguments(s, arguments, values) ==
  IF arguments = <<>> THEN EOk(s, values)
  ELSE Try(evaluate(s, Head(arguments)), LAMBDA a :
         evaluate_arguments(a.s, Tail(arguments), Append(values, a.v)))

ArityError(s, paren, expected, got) ==
  ERuntime(s, paren, "Expected " \o ToString(expected) \o " arguments but got "
                     \o ToString(got) \o ".")

\* visit_call_expr without the comparison of the number of arguments
\* with the arity.
visit_call_expr_unchecked(s, callee, paren, arguments) ==
  Try(evaluate(s, callee), LAMBDA callee_value :
    Try(evaluate_arguments(callee_value.s, arguments, <<>>), LAMBDA args :
      CASE callee_value.v.kind = "Callable" ->
             Function_call(args.s, callee_value.v, args.v)
        [] callee_value.v.kind = "Class" ->
             LET instance == LoxInstance_new(args.s, callee_value.v.ref)
                 initializer == find_method(args.s.classes[callee_value.v.ref], "init")
                 b == bind(instance.s, initializer, instance.v)
             IN IF initializer.kind = "Null" THEN EOk(instance.s, instance.v)
                ELSE Try(Function_call(b.s, b.v, args.v), LAMBDA c :
                       EOk(c.s, instance.v))
        [] OTHER -> ERuntime(args.s, paren, "Can only call functions and classes.")))

visit_call_expr(s, callee, paren, arguments) ==
  Try(evaluate(s, callee), LAMBDA callee_value :
    Try(evaluate_arguments(callee_value.s, arguments, <<>>), LAMBDA args :
      CASE callee_value.v.kind = "Callable" ->
             IF Len(args.v) # arity(callee_value.v)
               THEN ArityError(args.s, paren, arity(callee_value.v), Len(args.v))
               ELSE Function_call(args.s, callee_value.v, args.v)
        [] callee_value.v.kind = "Class" ->
             LET instance == LoxInstance_new(args.s, callee_value.v.ref)
                 initializer == find_method(args.s.classes[callee_value.v.ref], "init")
                 b == bind(instance.s, initializer, instance.v)
             IN IF initializer.kind = "Null" THEN EOk(instance.s, instance.v)
                ELSE IF Len(args.v) # arity(initializer)
                  THEN ArityError(instance.s, paren, arity(initializer), Len(args.v))
                ELSE Try(Function_call(b.s, b.v, args.v), LAMBDA c :
                       EOk(c.s, instance.v))
        [] OTHER -> ERuntime(args.s, paren, "Can only call functions and classes.")))

visit_get_expr(s, object, name) ==
  IF object.kind = "Instance" THEN LoxInstance_get(s, object, name)
  ELSE ERuntime(s, name, "Only instances have properties.")

\* The result is the instance, not the value stored (interpreter.rs:271).
visit_set_expr(s, object, property_name, value) ==
  Try(evaluate(s, object), LAMBDA o :
    IF o.v.kind = "Instance"
      THEN Try(evaluate(o.s, value), LAMBDA v :
             EOk([v.s EXCEPT !.instances[o.v.ref].fields =
                               Insert(@, property_name.lexeme, v.v)],
                 o.v))
    ELSE ERuntime(o.s, property_name, "Only instances have fields."))

\* The quotients the sources of the model compute are exact.
Arithmetic(token_type, l, r) ==
  CASE token_type = "Minus" -> Number(l - r)
    [] token_type = "Slash" -> Number(l \div r)
    [] token_type = "Star" -> Number(l * r)
    [] token_type = "GreaterEqual" -> Boolean(l >= r)
    [] token_type = "Greater" -> Boolean(l > r)
    [] token_type = "LessEqual" -> Boolean(l <= r)
    [] token_type = "Less" -> Boolean(l < r)

visit_binary_expr(s, left, operator, right) ==
  Try(evaluate(s, left), LAMBDA l :
    Try(evaluate(l.s, right), LAMBDA r :
      CASE operator.token_type = "Plus" ->
             IF l.v.kind = "Number" /\ r.v.kind = "Number"
               THEN EOk(r.s, Number(l.v.n + r.v.n))
             ELSE IF l.v.kind = "String" /\ r.v.kind = "String"
               THEN EOk(r.s, String(l.v.s \o r.v.s))
             ELSE ERuntime(r.s, operator, "Operands must be two numbers or two strings")
        [] operator.token_type = "BangEqual" -> EOk(r.s, Boolean(~equals(l.v, r.v)))
        [] operator.token_type = "EqualEqual" -> EOk(r.s, Boolean(equals(l.v, r.v)))
        [] OTHER ->
             IF l.v.kind = "Number" /\ r.v.kind = "Number"
               THEN EOk(r.s, Arithmetic(operator.token_type, l.v.n, r.v.n))
               ELSE number_operand_error(r.s, operator)))

visit_unary_expr(s, operator, right) ==
  IF operator.token_type = "Minus"
    THEN IF right.kind = "Number" THEN EOk(s, Number(0 - right.n))
         ELSE number_operand_error(s, operator)
    ELSE EOk(s, Boolean(~is_truthy(right)))

\* visit_logical_expr that evaluates both operands before it chooses.
visit_logical_expr_eager(s, left, operator, right) ==
  Try(evaluate(s, left), LAMBDA l :
    Try(evaluate(l.s, right), LAMBDA r :
      IF operator.token_type = "Or" /\ is_truthy(l.v) THEN [r EXCEPT !.v = l.v]
      ELSE IF operator.token_type # "Or" /\ ~is_truthy(l.v) THEN [r EXCEPT !.v = l.v]
      ELSE r))

visit_logical_expr(s, left, operator, right) ==
  Try(evaluate(s, left), LAMBDA l :
    IF operator.token_type = "Or" /\ is_truthy(l.v) THEN l
    ELSE IF operator.token_type # "Or" /\ ~is_truthy(l.v) THEN l
    ELSE evaluate(l.s, right))

visit_assign_expr(s, name, value) ==
  Try(evaluate(s, value), LAMBDA v :
    IF TokenKey(name) \in DOMAIN v.s.locals
      THEN LET distance == v.s.locals[TokenKey(name)]
               a == assign_at(v.s.envs, v.s.environment, distance, name, v.v)
               s1 == Observe([v.s EXCEPT !.envs = a.envs], name, distance)
           IN IF a.r = "Ok" THEN EOk(s1, v.v) ELSE EPanic(s1, a.v)
    ELSE LET a == Environment_assign(v.s.envs, globals, name, v.v)
             s1 == Observe([v.s EXCEPT !.envs = a.envs], name, -1)
         IN IF a.r = "Ok" THEN EOk(s1, v.v) ELSE [s |-> s1, r |-> a.r, v |-> a.v])

\* The evaluation of `super.method`: the superclass is the value of `super`
\* at the recorded distance, the instance the value of `this` one
\* environment nearer, and the result the method of the superclass bound to
\* the instance.
visit_super_expr(s, keyword, method) ==
  IF TokenKey(keyword) \notin DOMAIN s.locals THEN EPanic(s, "Undefined variable")
  ELSE LET distance == s.locals[TokenKey(keyword)]
           superclass == get_at(s.envs, s.environment, distance, "super")
           object == get_at(s.envs, s.environment, distance - 1, "this")
           found == find_method(s.classes[superclass.v.ref], method.lexeme)
           b == bind(s, found, object.v)
       IN IF superclass.r # "Ok" THEN EPanic(s, superclass.v)
          ELSE IF object.r # "Ok" THEN EPanic(s, object.v)
          ELSE IF found.kind = "Null"
            THEN ERuntime(s, method, "Undefined property '" \o method.lexeme \o "'.")
          ELSE EOk(b.s, b.v)

\* Expr::accept with the expression visitor of the interpreter.
evaluate(s, e) ==
  CASE e.type = "Literal" -> EOk(s, e.value)
    [] e.type = "Grouping" -> evaluate(s, e.expression)
    [] e.type = "Unary" ->
         Try(evaluate(s, e.right), LAMBDA right :
           visit_unary_expr(right.s, e.operator, right.v))
    [] e.type = "Call" -> visit_call_expr(s, e.callee, e.paren, e.arguments)
    [] e.type = "Get" ->
         Try(evaluate(s, e.object), LAMBDA object :
           visit_get_expr(object.s, object.v, e.name))
    [] e.type = "Set" -> visit_set_expr(s, e.object, e.name, e.value)
    [] e.type = "This" -> look_up_variable(s, e.keyword)
    [] e.type = "Super" -> visit_super_expr(s, e.keyword, e.method)
    [] e.type = "Binary" -> visit_binary_expr(s, e.left, e.operator, e.right)
    [] e.type = "Logical" -> visit_logical_expr(s, e.left, e.operator, e.right)
    [] e.type = "Variable" -> look_up_variable(s, e.name)
    [] e.type = "Assign" -> visit_assign_expr(s, e.name, e.value)

RECURSIVE class_methods_map(_, _, _)
class_methods_map(methods, closure, class_methods) ==
  IF methods = <<>> THEN class_methods
  ELSE class_methods_map(Tail(methods), closure,
         Insert(class_methods, Head(methods).name.lexeme,
                User(Head(methods).name, Head(methods).params, Head(methods).body,
                     closure, Head(methods).name.lexeme = "init")))

\* The superclass of the declaration is not passed to this visitor.
visit_class_stmt(s, class_name, methods) ==
  LET envs1 == Environment_define(s.envs, s.environment, class_name.lexeme, Null)
      lox_class == [name |-> class_name.lexeme,
                    methods |-> class_methods_map(methods, s.environment, EmptyMap)]
      class == [kind |-> "Class", ref |-> Len(s.classes) + 1]
      a == Environment_assign(envs1, s.environment, class_name, class)
  IN EOk([s EXCEPT !.envs = a.envs, !.classes = Append(@, lox_class)], Null)

\* visit_function_stmt with a copy of the current environment as closure.
visit_function_stmt_by_value(s, name, params, body) ==
  EOk([s EXCEPT !.envs = Environment_define(Append(@, s.envs[s.environment]),
                           s.environment, name.lexeme,
                           User(name, params, body, Len(s.envs) + 1, FALSE))],
      Null)

visit_function_stmt(s, name, params, body) ==
  EOk([s EXCEPT !.envs = Environment_define(@, s.environment, name.lexeme,
                           User(name, params, body, s.environment, FALSE))],
      Null)

visit_return_stmt(s, keyword, value) ==
  Try(IF value.type # "None" THEN evaluate(s, value) ELSE EOk(s, Null),
      LAMBDA return_value : EReturn(return_value.s, return_value.v))

visit_if_stmt(s, condition, then_branch, else_branch) ==
  Try(evaluate(s, condition), LAMBDA condition_val :
    IF is_truthy(condition_val.v) THEN execute(condition_val.s, then_branch)
    ELSE IF else_branch.type # "None" THEN execute(condition_val.s, else_branch)
    ELSE EOk(condition_val.s, Null))

visit_while_stmt(s, condition, body) ==
  Try(evaluate(s, condition), LAMBDA value :
    IF is_truthy(value.v)
      THEN Try(execute(value.s, body), LAMBDA b : visit_while_stmt(b.s, condition, body))
    ELSE EOk(value.s, Null))

visit_print_stmt(s, value) ==
  EOk([s EXCEPT !.stdout = Append(@, stringify(s, value))], Null)

visit_var_stmt(s, name, value) ==
  EOk([s EXCEPT !.envs = Environment_define(@, s.environment, name.lexeme, value)], Null)

visit_block_stmt(s, statements) ==
  execute_block([s EXCEPT !.envs = Append(@, Environment_from(s.environment))],
                statements, Len(s.envs) + 1)

\* Stmt::accept with the statement visitor of the interpreter, for a
\* statement that is within the bound.
accept(s, st) ==
  CASE st.type = "Expression" ->
         Try(evaluate(s, st.expression), LAMBDA v : EOk(v.s, Null))
    [] st.type = "Print" ->
         Try(evaluate(s, st.expression), LAMBDA v : visit_print_stmt(v.s, v.v))
    [] st.type = "Function" -> visit_function_stmt(s, st.name, st.params, st.body)
    [] st.type = "Return" -> visit_return_stmt(s, st.keyword, st.value)
    [] st.type = "Var" ->
         Try(IF st.initializer.type # "None" THEN evaluate(s, st.initializer)
             ELSE EOk(s, Null),
             LAMBDA v : visit_var_stmt(v.s, st.name, v.v))
    [] st.type = "Block" -> visit_block_stmt(s, st.statements)
    [] st.type = "Class" -> visit_class_stmt(s, st.name, st.methods)
    [] st.type = "Null" -> EPanic(s, "not implemented")
    [] st.type = "If" -> visit_if_stmt(s, st.condition, st.then_branch, st.else_branch)
    [] st.type = "While" -> visit_while_stmt(s, st.condition, st.body)

\* Interpreter::execute.  A run that has executed MaxSteps statements is cut
\* off with the result "Fuel".
execute(s, st) ==
  IF s.steps >= MaxSteps THEN EFuel(s) ELSE accept([s EXCEPT !.steps = @ + 1], st)

\* Interpreter::new: globals holds `clock`, and is the current environment.
Interpreter_new ==
  [envs |-> <<[values |-> ("clock" :> Native), enclosing |-> 0]>>,
   environment |-> globals, locals |-> EmptyMap,
   classes |-> <<>>, instances |-> <<>>, stdout |-> <<>>, steps |-> 0, now |-> 0,
   lexical |-> EmptyMap, mislookups |-> {}, unrestored |-> FALSE, exits |-> {},
   frames |-> <<>>]

(***************************************************************************)
(* Sources                                                                 *)
(***************************************************************************)

\* The sources the program is run on, as sequences of lexemes with "\n" for
\* a line break.

ShadowProgram ==
  <<"{", "var", "a", "=", "1", ";", "\n", "{", "var", "a", "=", "2", ";",
    "\n", "print", "a", ";", "}", "}">>

SameLineProgram ==
  <<"{", "var", "a", "=", "1", ";", "{", "print", "a", ";", "}", "print",
    "a", ";", "}">>

CounterProgram ==
  <<"fun", "makeCounter", "(", ")", "{", "var", "i", "=", "0", ";", "fun",
    "c", "(", ")", "{", "i", "=", "i", "+", "1", ";", "return", "i", ";",
    "}", "return", "c", ";", "}", "\n", "var", "c", "=", "makeCounter", "(",
    ")", ";", "print", "c", "(", ")", ";", "print", "c", "(", ")", ";",
    "print", "c", "(", ")", ";", "\n", "var", "d", "=", "makeCounter", "(",
    ")", ";", "print", "d", "(", ")", ";", "print", "c", "(", ")", ";">>

SharedProgram ==
  <<"var", "g", ";", "var", "h", ";", "\n", "fun", "mk", "(", ")", "{",
    "var", "n", "=", "0", ";", "fun", "inc", "(", ")", "{", "n", "=", "n",
    "+", "1", ";", "return", "n", ";", "}", "fun", "get", "(", ")", "{",
    "return", "n", ";", "}", "g", "=", "inc", ";", "h", "=", "get", ";", "}",
    "\n", "mk", "(", ")", ";", "g", "(", ")", ";", "g", "(", ")", ";",
    "print", "h", "(", ")", ";", "\n", "var", "k", "=", "h", ";", "mk", "(",
    ")", ";", "print", "h", "(", ")", ";", "g", "(", ")", ";", "print", "k",
    "(", ")", ";", "print", "h", "(", ")", ";">>

BlockExitProgram ==
  <<"fun", "f", "(", ")", "{", "{", "return", "1", ";", "}", "}", "\n",
    "print", "f", "(", ")", ";", "\n", "var", "x", "=", "3", ";", "\n", "{",
    "var", "y", "=", "4", ";", "\n", "{", "print", "y", "+", "nil", ";", "}",
    "}", "\n", "print", "x", ";">>

ReturnProgram ==
  <<"fun", "f", "(", "n", ")", "{", "while", "(", "true", ")", "{", "\n",
    "if", "(", "n", ">", "0", ")", "{", "{", "\n", "return", "n", ";", "\n",
    "}", "}", "print", "\"x\"", ";", "n", "=", "n", "+", "1", ";", "}",
    "print", "\"y\"", ";", "}", "\n", "fun", "g", "(", ")", "{", "print",
    "\"A\"", ";", "}", "\n", "print", "f", "(", "1", ")", ";", "print", "f",
    "(", "0", ")", ";", "print", "g", "(", ")", ";">>

ClosureParentProgram ==
  <<"{", "var", "a", "=", "\"x\"", ";", "\n", "fun", "f", "(", ")", "{",
    "print", "a", ";", "return", "a", ";", "print", "\"B\"", ";", "}", "\n",
    "{", "var", "b", "=", "\"y\"", ";", "\n", "{", "var", "a", "=", "\"A\"",
    ";", "\n", "f", "(", ")", ";", "}", "}", "}">>

InitProgram ==
  <<"class", "Foo", "{", "init", "(", ")", "{", "return", ";", "}", "}",
    "\n", "var", "o", "=", "Foo", "(", ")", ";", "\n", "var", "r", "=", "o",
    ".", "init", "(", ")", ";", "\n", "print", "r", ";">>

AndProgram ==
  <<"print", "true", "and", "false", ";">>

OrAndProgram ==
  <<"var", "a", "=", "1", "or", "2", "and", "3", ";">>

TopLevelReturnProgram ==
  <<"print", "1", ";", "\n", "{", "return", "2", ";", "}">>

\* A loop that does not end; its run is cut after MaxSteps statements.
LoopProgram ==
  <<"var", "a", "=", "0", ";", "\n",
    "while", "(", "true", ")", "{", "a", "=", "1", ";", "}">>

\* An assignment to something that is no variable and no property.
InvalidTargetProgram ==
  <<"var", "a", "=", "1", ";", "\n",
    "a", "+", "1", "=", "2", ";", "\n",
    "print", "a", ";">>

\* A statement without its `;`, and a declaration after it.
SyncClassProgram ==
  <<"print", "1", "2", "\n",
    "class", "A", "{", "}", "\n",
    "print", "3", ";">>

SyncVarProgram ==
  <<"print", "1", "2", "\n",
    "var", "a", "=", "3", ";", "\n",
    "print", "a", ";">>

ReplVar ==
  <<"var", "a", "=", "1", ";">>

ReplBlock ==
  <<"{", "var", "a", "=", "2", ";", "print", "a", ";", "}">>

ReplPrint ==
  <<"print", "a", ";">>

ReplFun ==
  <<"fun", "f", "(", ")", "{", "{", "return", "3", ";", "}", "}">>

ReplCall ==
  <<"print", "f", "(", ")", ";">>

ReplReturn ==
  <<"return", "1", ";">>

ReplFactor ==
  <<"print", "2", "*", "3", ";">>

FactorProgram ==
  <<"print", "1", "+", "2", "*", "3", ";">>

\* Sources with `return` statements, each with the diagnostics the resolver
\* is to report for it, in order.
TopLevel == "Cannot return from top-level code."
FromInitializer == "Can't return a value from an initializer."

InInit(body) ==
  <<"class", "K", "{", "init", "(", ")", "{">> \o body \o <<"}", "}">>

ReturnCases ==
  {[source |-> <<"return", ";">>, diagnostics |-> <<TopLevel>>],
   [source |-> <<"{", "return", "1", ";", "}">>, diagnostics |-> <<TopLevel>>],
   [source |-> <<"if", "(", "true", ")", "return", ";", "\n", "return", "1", ";">>,
    diagnostics |-> <<TopLevel, TopLevel>>],
   [source |-> InInit(<<"return", "1", ";">>), diagnostics |-> <<FromInitializer>>],
   [source |-> InInit(<<"return", ";">>), diagnostics |-> <<>>],
   [source |-> InInit(<<"fun", "g", "(", ")", "{", "return", "1", ";", "}">>),
    diagnostics |-> <<>>],
   [source |-> InInit(<<"fun", "g", "(", ")", "{", "return", "1", ";", "}", "\n",
                        "return", "2", ";">>),
    diagnostics |-> <<FromInitializer>>],
   [source |-> <<"fun", "f", "(", ")", "{", "return", "1", ";", "}", "\n",
                 "return", "2", ";">>,
    diagnostics |-> <<TopLevel>>],
   [source |-> <<"fun", "f", "(", ")", "{">> \o InInit(<<"return", ";">>)
               \o <<"\n", "return", "1", ";", "}">>,
    diagnostics |-> <<>>],
   [source |-> <<"class", "K", "{", "m", "(", ")", "{", "return", "1", ";", "}", "}",
                 "\n", "return", ";">>,
    diagnostics |-> <<TopLevel>>],
   [source |-> <<"class", "K", "{", "init", "(", ")", "{", "return", "1", ";", "}",
                 "m", "(", ")", "{", "return", "2", ";", "}", "}">>,
    diagnostics |-> <<FromInitializer>>]}

ReturnPrograms == {c.source : c \in ReturnCases}

\* Sources that declare a name twice, each with the number of diagnostics
\* "Variable with this name already declared in this scope." the resolver is
\* to report for it.
DeclareCases ==
  {[source |-> <<"{", "var", "a", "=", "1", ";", "\n", "var", "a", "=", "2", ";", "}">>,
    diagnostics |-> 1],
   [source |-> <<"fun", "f", "(", "a", ",", "a", ")", "{", "}">>, diagnostics |-> 1],
   [source |-> <<"fun", "f", "(", "a", ")", "{", "var", "a", "=", "1", ";", "}">>,
    diagnostics |-> 1],
   [source |-> <<"{", "fun", "f", "(", ")", "{", "}", "\n",
                 "fun", "f", "(", ")", "{", "}", "}">>,
    diagnostics |-> 1],
   [source |-> <<"{", "class", "K", "{", "}", "\n", "class", "K", "{", "}", "}">>,
    diagnostics |-> 1],
   [source |-> <<"{", "var", "a", ";", "\n", "fun", "a", "(", ")", "{", "}", "\n",
                 "class", "a", "{", "}", "}">>,
    diagnostics |-> 2],
   [source |-> <<"var", "a", "=", "1", ";", "\n", "var", "a", "=", "2", ";", "\n",
                 "print", "a", ";">>,
    diagnostics |-> 0],
   [source |-> <<"fun", "f", "(", ")", "{", "}", "\n", "fun", "f", "(", ")", "{", "}",
                 "\n", "class", "f", "{", "}">>,
    diagnostics |-> 0],
   [source |-> <<"var", "a", "=", "1", ";", "\n", "{", "var", "a", "=", "2", ";", "\n",
                 "{", "var", "a", "=", "3", ";", "}", "}">>,
    diagnostics |-> 0],
   [source |-> <<"fun", "f", "(", "a", ")", "{", "{", "var", "a", "=", "1", ";", "}", "}",
                 "\n", "f", "(", "2", ")", ";">>,
    diagnostics |-> 0]}

DeclarePrograms == {c.source : c \in DeclareCases}

\* A function whose body is a loop around a block; the block prints, writes
\* a field and a global variable, and then negates a string.
RuntimeErrorProgram ==
  <<"var", "a", "=", "1", ";", "\n",
    "class", "K", "{", "}", "\n",
    "var", "o", "=", "K", "(", ")", ";", "\n",
    "fun", "f", "(", ")", "{", "while", "(", "a", "<", "3", ")", "{",
      "print", "\"x\"", ";", "o", ".", "n", "=", "2", ";", "a", "=", "3", ";",
      "print", "-", "\"y\"", ";", "print", "\"A\"", ";", "}",
      "print", "\"B\"", ";", "}", "\n",
    "f", "(", ")", ";", "\n",
    "print", "\"B\"", ";">>

\* Top-level statements, the second of which adds nil and a number.
RuntimeErrorTopProgram ==
  <<"print", "\"x\"", ";", "\n", "print", "nil", "+", "1", ";", "\n",
    "print", "\"A\"", ";">>

\* `fun p(v) { print v; return v; }` and `fun g() { print "A"; }`, followed
\* by one call whose callee and arguments print as they are evaluated; with
\* each source what it is to print and the runtime error it is to end with.
WithPrinter(rest) ==
  <<"fun", "p", "(", "v", ")", "{", "print", "v", ";", "return", "v", ";", "}", "\n",
    "fun", "g", "(", ")", "{", "print", "\"A\"", ";", "}", "\n">> \o rest

P(n) == <<"p", "(", n, ")">>

CallCases ==
  {[source |-> WithPrinter(P("0") \o <<"(">> \o P("1") \o <<",">> \o P("2")
                           \o <<")", ";">>),
    output |-> <<"0", "1", "2">>,
    message |-> "Can only call functions and classes."],
   [source |-> WithPrinter(<<"\"x\"", "(">> \o P("1") \o <<",">> \o P("2")
                           \o <<")", ";">>),
    output |-> <<"1", "2">>,
    message |-> "Can only call functions and classes."],
   [source |-> WithPrinter(<<"g", "(">> \o P("1") \o <<",">> \o P("2") \o <<")", ";">>),
    output |-> <<"1", "2">>,
    message |-> "Expected 0 arguments but got 2."],
   [source |-> WithPrinter(<<"p", "(">> \o P("1") \o <<",">> \o P("2") \o <<",">>
                           \o P("3") \o <<")", ";">>),
    output |-> <<"1", "2", "3">>,
    message |-> "Expected 1 arguments but got 3."],
   [source |-> WithPrinter(<<"g", "(">> \o P("1") \o <<",", "-", "\"y\"", ",">>
                           \o P("2") \o <<")", ";">>),
    output |-> <<"1">>,
    message |-> "Operand must be a number"],
   [source |-> WithPrinter(P("0") \o <<"(", "-", "\"y\"", ",">> \o P("1")
                           \o <<")", ";">>),
    output |-> <<"0">>,
    message |-> "Operand must be a number"]}

CallPrograms == {c.source : c \in CallCases}

\* Assignments to fields and to a variable, chained and printed.
SetProgram ==
  <<"class", "K", "{", "}", "\n",
    "var", "a", "=", "K", "(", ")", ";", "var", "b", "=", "K", "(", ")", ";", "\n",
    "a", ".", "x", "=", "b", ".", "y", "=", "1", ";", "\n",
    "print", "b", ".", "y", ";", "print", "a", ".", "x", ";", "\n",
    "print", "a", ".", "x", "=", "2", ";", "\n",
    "var", "c", "=", "0", ";", "print", "c", "=", "3", ";">>

\* A class with a superclass whose method declares a name twice in a block
\* and uses `super`, a function with a nested function, and a block with a
\* `return` at top level.
BalanceProgram ==
  <<"class", "A", "{", "}", "\n",
    "class", "B", "<", "A", "{", "m", "(", ")", "{", "{", "var", "a", "=", "1", ";",
      "var", "a", "=", "2", ";", "}", "super", ".", "m", "(", ")", ";", "}", "}", "\n",
    "fun", "f", "(", ")", "{", "fun", "g", "(", ")", "{", "}", "}", "\n",
    "{", "return", ";", "}">>

\* The lexemes a family of sources is instantiated with.
OperandLexemes == {"nil", "false", "true", "0", "\"x\"", "\"\""}

\* The number of calls in a source of the family ShowProgram.
MaxCalls == 2

RECURSIVE Repeat(_, _)
Repeat(words, n) == IF n = 0 THEN <<>> ELSE words \o Repeat(words, n - 1)

\* A block that declares `show`, which prints the global `a`, calls it
\* `before` times, declares a local `a`, and calls it `after` times.
ShowProgram(before, after) ==
  <<"var", "a", "=", "\"global\"", ";", "\n",
    "{", "fun", "show", "(", ")", "{", "print", "a", ";", "}", "\n">>
  \o Repeat(<<"show", "(", ")", ";", "\n">>, before)
  \o <<"var", "a", "=", "\"local\"", ";", "\n">>
  \o Repeat(<<"show", "(", ")", ";", "\n">>, after)
  \o <<"}">>

\* `print L() or R();` where L prints "A" and returns `l`, and R prints "B"
\* and returns `r`.
OrProgram(l, r) ==
  <<"fun", "L", "(", ")", "{", "print", "\"A\"", ";", "return", l, ";", "}", "\n",
    "fun", "R", "(", ")", "{", "print", "\"B\"", ";", "return", r, ";", "}", "\n",
    "print", "L", "(", ")", "or", "R", "(", ")", ";">>

\* The source with its line breaks taken out.
OneLine(words) == SelectSeq(words, LAMBDA w : w # "\n")

\* `fun f(a) { print a; }`, `print "x";` and a call of f with `k` arguments.
ArityProgram(k) ==
  <<"fun", "f", "(", "a", ")", "{", "print", "a", ";", "}", "\n",
    "print", "\"x\"", ";", "\n", "f", "(">>
  \o (CASE k = 0 -> <<>> [] k = 1 -> <<"1">> [] k = 2 -> <<"1", ",", "2">>)
  \o <<")", ";">>

\* A class whose `init` takes one parameter, instantiated with none.
ArityClassProgram ==
  <<"class", "K", "{", "init", "(", "a", ")", "{", "print", "a", ";", "}", "}", "\n",
    "print", "\"x\"", ";", "\n", "K", "(", ")", ";">>

\* The native function `clock`, of arity 0, called with one argument.
ArityNativeProgram ==
  <<"print", "\"x\"", ";", "\n", "clock", "(", "1", ")", ";">>

ArityMismatchPrograms ==
  {ArityProgram(0), ArityProgram(2), ArityClassProgram, ArityNativeProgram}

\* `class A { hi() { print "A"; } }` followed by `rest`.
WithClassA(rest) ==
  <<"class", "A", "{", "hi", "(", ")", "{", "print", "\"A\"", ";", "}", "}", "\n">>
  \o rest

\* B inherits `hi` from A.
InheritProgram ==
  WithClassA(<<"class", "B", "<", "A", "{", "}", "\n",
               "B", "(", ")", ".", "hi", "(", ")", ";">>)

\* C inherits `hi` from A through B.
InheritChainProgram ==
  WithClassA(<<"class", "B", "<", "A", "{", "}", "\n",
               "class", "C", "<", "B", "{", "}", "\n",
               "C", "(", ")", ".", "hi", "(", ")", ";">>)

\* B overrides `hi`.
OverrideProgram ==
  WithClassA(<<"class", "B", "<", "A", "{", "hi", "(", ")", "{", "print", "\"B\"",
               ";", "}", "}", "\n",
               "B", "(", ")", ".", "hi", "(", ")", ";">>)

\* B overrides `hi` and calls the one of A through `super`.
SuperProgram ==
  WithClassA(<<"class", "B", "<", "A", "{", "hi", "(", ")", "{", "super", ".", "hi",
               "(", ")", ";", "print", "\"B\"", ";", "}", "}", "\n",
               "B", "(", ")", ".", "hi", "(", ")", ";">>)

InheritancePrograms == {InheritProgram, InheritChainProgram, OverrideProgram, SuperProgram}

\* Two instances `p` and `q` of a class whose method `name` prints the field
\* `n` of `this`; the method is taken from each into a variable, called, and
\* the one of `p` is stored in a field of `q` and called from there.
BoundMethodProgram ==
  <<"class", "P", "{", "name", "(", ")", "{", "print", "this", ".", "n", ";", "}", "}", "\n",
    "var", "p", "=", "P", "(", ")", ";", "p", ".", "n", "=", "\"x\"", ";", "\n",
    "var", "q", "=", "P", "(", ")", ";", "q", ".", "n", "=", "\"y\"", ";", "\n",
    "var", "m", "=", "p", ".", "name", ";", "\n",
    "var", "k", "=", "q", ".", "name", ";", "\n",
    "m", "(", ")", ";", "k", "(", ")", ";", "m", "(", ")", ";", "\n",
    "q", ".", "f", "=", "m", ";", "\n",
    "q", ".", "f", "(", ")", ";", "\n",
    "q", ".", "name", "(", ")", ";">>

\* The operands of the comparisons: literals, and the names of a function,
\* a class and an instance.
EqLexemes == {"nil", "true", "false", "0", "1", "\"x\"", "\"\"", "f", "K", "i"}

\* `fun f() { } class K { } var i = K();` and then `print l == r; print l != r;`.
EqProgram(l, r) ==
  <<"fun", "f", "(", ")", "{", "}", "class", "K", "{", "}",
    "var", "i", "=", "K", "(", ")", ";", "\n",
    "print", l, "==", r, ";", "print", l, "!=", r, ";">>

EqPrograms == {EqProgram(l, r) : l \in EqLexemes, r \in EqLexemes}

ShowPrograms == {ShowProgram(b, a) : b \in 1 .. MaxCalls, a \in 1 .. MaxCalls}
OrPrograms == {OrProgram(l, r) : l \in OperandLexemes, r \in OperandLexemes}

Programs ==
  {ShadowProgram, SameLineProgram, CounterProgram, SharedProgram, BlockExitProgram,
   ReturnProgram, ClosureParentProgram, InitProgram, AndProgram, OrAndProgram,
   TopLevelReturnProgram, LoopProgram, InvalidTargetProgram, SyncClassProgram,
   SyncVarProgram}
  \cup ShowPrograms \cup OrPrograms \cup ArityMismatchPrograms \cup {ArityProgram(1)}
  \cup InheritancePrograms \cup {BoundMethodProgram} \cup EqPrograms \cup {FactorProgram}
  \cup ReturnPrograms \cup DeclarePrograms
  \cup {RuntimeErrorProgram, RuntimeErrorTopProgram} \cup CallPrograms \cup {SetProgram, BalanceProgram}

\* The files: every source as written, and on a single line.
Files == Programs \cup {OneLine(f) : f \in Programs}

\* The lines typed at the prompt, and how many of them.
Lines == {ReplVar, ReplBlock, ReplPrint, ReplFun, ReplCall, ReplReturn, ReplFactor}
MaxLines == 2

\* The readings of the system clock.
ClockValues == {0, 7}

(***************************************************************************)
(* main, Lox::run_file, Lox::run_prompt and Lox::run                       *)
(***************************************************************************)

\* `mode` is "file" or "repl"; `input` is what is left to read (the file, or
\* the lines of standard input); `pc` is the position in Lox::run; `source`,
\* `tokens` and `statements` are its locals, `cursor` the index of the next
\* statement of Interpreter::interpret; `interpreter` is the evaluator state
\* with standard output; `result` is what Lox::run returned last; the
\* process has ended when `pc` is "exit", with `exit_code`.  `scanned`
\* counts the tokens scanned so far, to number the ones of the next line.
\* `scanner` is the Scanner of a run of the scanner on characters, and
\* `invocation` the last invocation of a function that is run on its own, with the
\* environments it was given; a run of Lox::run leaves both alone.
VARIABLES mode, input, pc, source, tokens, statements, cursor, interpreter,
          stderr, result, exit_code, scanned, scanner, invocation

vars == <<mode, input, pc, source, tokens, statements, cursor, interpreter,
          stderr, result, exit_code, scanned, scanner, invocation>>

NoResult == [r |-> "None", v |-> Null]

NoCall == [function |-> "none"]

Init ==
  /\ mode \in {"file", "repl"}
  /\ input \in IF mode = "file" THEN {<<f>> : f \in Files}
               ELSE UNION {[1 .. n -> Lines] : n \in 0 .. MaxLines}
  /\ pc = "read"
  /\ source = <<>>
  /\ tokens = <<>>
  /\ statements = <<>>
  /\ cursor = 1
  /\ \E now \in ClockValues : interpreter = [Interpreter_new EXCEPT !.now = now]
  /\ stderr = <<>>
  /\ result = NoResult
  /\ exit_code = -1
  /\ scanned = 0
  /\ scanner = Scanner_new(<<>>)
  /\ invocation = NoCall

\* The tokens with positions that no earlier token of the process has.
Renumber(ts, base) == [i \in 1 .. Len(ts) |-> [ts[i] EXCEPT !.pos = base + i]]

\* read_to_string, or the next line of standard input, and the scanner.
\* Standard input at its end makes run_prompt return Ok.
Read ==
  /\ pc = "read"
  /\ IF input = <<>>
       THEN /\ pc' = "exit"
            /\ exit_code' = 0
            /\ UNCHANGED <<input, source, tokens, scanned, interpreter>>
       ELSE /\ source' = Head(input)
            /\ input' = Tail(input)
            /\ tokens' = Renumber(scan_tokens(Head(input)), scanned)
            /\ scanned' = scanned + Len(tokens')
            /\ interpreter' = [interpreter EXCEPT !.steps = 0]
            /\ pc' = "scanned"
            /\ UNCHANGED exit_code
  /\ UNCHANGED <<mode, statements, cursor, stderr, result, scanner, invocation>>

\* Parser::new(tokens).parse()
Parse ==
  /\ pc = "scanned"
  /\ LET parsed == parse(Parser_new(tokens))
     IN /\ interpreter' = [interpreter EXCEPT !.stdout = @ \o parsed.p.stdout]
        /\ stderr' = stderr \o parsed.p.stderr
        /\ IF parsed.r = "Panic"
             THEN /\ pc' = "exit"
                  /\ exit_code' = 101
                  /\ result' = [r |-> "Panic", v |-> "stack overflow"]
                  /\ UNCHANGED statements
             ELSE /\ statements' = parsed.v
                  /\ pc' = "parsed"
                  /\ UNCHANGED <<exit_code, result>>
  /\ UNCHANGED <<mode, input, source, tokens, cursor, scanned, scanner, invocation>>

\* `if resolver.had_error` without the test.
had_error_ignored(rs) == FALSE

\* `if resolver.had_error { return Ok(()); }`
had_error(rs) == rs.had_error

\* Resolver::new(&mut self.interpreter).resolve_stmts(&statements), and the
\* early return of Lox::run when the resolver has reported an error.
Resolve ==
  /\ pc = "parsed"
  /\ LET rs == resolve_stmts(Resolver_new(interpreter.locals, interpreter.lexical),
                             statements)
     IN /\ interpreter' = [interpreter EXCEPT !.locals = rs.locals,
                                              !.lexical = rs.lexical]
        /\ stderr' = stderr \o rs.stderr
        /\ IF rs.panic
             THEN /\ pc' = "exit"
                  /\ exit_code' = 101
                  /\ result' = [r |-> "Panic", v |-> "not implemented"]
             ELSE IF had_error(rs)
               THEN /\ pc' = "returned"
                    /\ result' = [r |-> "Ok", v |-> Null]
                    /\ UNCHANGED exit_code
             ELSE /\ pc' = "resolved"
                  /\ UNCHANGED <<exit_code, result>>
        /\ cursor' = 1
  /\ UNCHANGED <<mode, input, source, tokens, statements, scanned, scanner, invocation>>

\* One turn of the loop of Interpreter::interpret: the next top-level
\* statement, and `?` on its result.
Execute ==
  /\ pc = "resolved"
  /\ IF cursor > Len(statements)
       THEN /\ pc' = "returned"
            /\ result' = [r |-> "Ok", v |-> Null]
            /\ UNCHANGED <<cursor, interpreter, exit_code>>
       ELSE LET done == execute(interpreter, statements[cursor])
            IN /\ interpreter' = done.s
               /\ CASE done.r = "Ok" ->
                         /\ cursor' = cursor + 1
                         /\ UNCHANGED <<pc, result, exit_code>>
                    [] done.r \in {"Runtime", "Return"} ->
                         /\ pc' = "returned"
                         /\ result' = [r |-> done.r, v |-> done.v]
                         /\ UNCHANGED <<cursor, exit_code>>
                    [] done.r = "Panic" ->
                         /\ pc' = "exit"
                         /\ exit_code' = 101
                         /\ result' = [r |-> "Panic", v |-> done.v]
                         /\ UNCHANGED cursor
                    [] done.r = "Fuel" ->
                         /\ pc' = "cut"
                         /\ UNCHANGED <<cursor, result, exit_code>>
  /\ UNCHANGED <<mode, input, source, tokens, statements, stderr, scanned, scanner,
                 invocation>>

\* What the caller of Lox::run does with its result: main in file mode, the
\* loop of run_prompt and then main at the prompt.
Finish ==
  /\ pc = "returned"
  /\ IF mode = "file"
       THEN /\ pc' = "exit"
            /\ exit_code' = CASE result.r = "Ok" -> 0
                              [] result.r = "Runtime" -> 70
                              [] result.r = "Return" -> 101
            /\ UNCHANGED <<interpreter, stderr>>
       ELSE IF result.r = "Ok"
         THEN /\ interpreter' = [interpreter EXCEPT !.stdout = Append(@, "> ")]
              /\ pc' = "read"
              /\ UNCHANGED <<exit_code, stderr>>
       ELSE /\ pc' = "exit"
            /\ exit_code' = 1
            /\ stderr' = Append(stderr, [line |-> 0, message |-> "Error: " \o result.r])
            /\ UNCHANGED interpreter
  /\ UNCHANGED <<mode, input, source, tokens, statements, cursor, result, scanned,
                 scanner, invocation>>

Next == Read \/ Parse \/ Resolve \/ Execute \/ Finish

Spec == Init /\ [][Next]_vars

(***************************************************************************)
(* The scanner on its own                                                  *)
(***************************************************************************)

\* The characters of the sources, and how many a source has at most.
SourceChars == {"\"", "o", "r", "1", ".", "\n", "@", "/", "=", " "}
MaxLen == 3

ScanInit ==
  /\ mode = "scan"
  /\ input = <<>>
  /\ pc = "scan"
  /\ source = <<>>
  /\ tokens = <<>>
  /\ statements = <<>>
  /\ cursor = 1
  /\ interpreter = Interpreter_new
  /\ stderr = <<>>
  /\ result = NoResult
  /\ exit_code = -1
  /\ scanned = 0
  /\ \E n \in 0 .. MaxLen : \E src \in [1 .. n -> SourceChars] : scanner = Scanner_new(src)
  /\ invocation = NoCall

\* One turn of the loop of Scanner::scan_tokens.
ScanToken ==
  /\ pc = "scan"
  /\ ~Scanner_is_at_end(scanner)
  /\ scanner' = Scanner_scan_token([scanner EXCEPT !.start = scanner.current])
  /\ IF scanner'.panic # ""
       THEN /\ pc' = "exit"
            /\ exit_code' = 101
            /\ result' = [r |-> "Panic", v |-> scanner'.panic]
       ELSE UNCHANGED <<pc, exit_code, result>>
  /\ UNCHANGED <<mode, input, source, tokens, statements, cursor, interpreter, stderr,
                 scanned, invocation>>

\* The end of the loop, and the Eof token.
ScanEof ==
  /\ pc = "scan"
  /\ Scanner_is_at_end(scanner)
  /\ scanner' = Scanner_eof(scanner)
  /\ pc' = "scanned"
  /\ UNCHANGED <<mode, input, source, tokens, statements, cursor, interpreter, stderr,
                 result, exit_code, scanned, invocation>>

ScanNext == ScanToken \/ ScanEof

ScanSpec == ScanInit /\ [][ScanNext]_vars

(***************************************************************************)
(* Parser::parse on its own                                                *)
(***************************************************************************)

\* The lexemes of the token lists, and how many a list has before its Eof.
ParseWords == {"(", ")", "1", ";", "{", "}", "print", "var", "a"}
MaxWords == 3

\* `invocation.parser` is the Parser; `statements` is the local of parse.
ParseInit ==
  /\ mode = "parse"
  /\ input = <<>>
  /\ pc = "parse"
  /\ source = <<>>
  /\ \E n \in 0 .. MaxWords : \E words \in [1 .. n -> ParseWords] :
       tokens = scan_tokens(words)
  /\ statements = <<>>
  /\ cursor = 1
  /\ interpreter = Interpreter_new
  /\ stderr = <<>>
  /\ result = NoResult
  /\ exit_code = -1
  /\ scanned = 0
  /\ scanner = Scanner_new(<<>>)
  /\ invocation = [function |-> "parse", parser |-> Parser_new(tokens)]

\* One turn of the loop of Parser::parse: `statements.push(self.declaration()?)`.
ParseDeclaration ==
  /\ pc = "parse"
  /\ ~is_at_end(invocation.parser)
  /\ LET d == declaration(invocation.parser)
     IN /\ invocation' = [invocation EXCEPT !.parser = d.p]
        /\ IF d.r = "Ok"
             THEN /\ statements' = Append(statements, d.v)
                  /\ UNCHANGED <<pc, exit_code, result>>
             ELSE /\ pc' = "exit"
                  /\ exit_code' = 101
                  /\ result' = [r |-> "Panic", v |-> "stack overflow"]
                  /\ UNCHANGED statements
  /\ UNCHANGED <<mode, input, source, tokens, cursor, interpreter, stderr, scanned,
                 scanner>>

\* The end of the loop: `Ok(statements)`.
ParseEnd ==
  /\ pc = "parse"
  /\ is_at_end(invocation.parser)
  /\ pc' = "parsed"
  /\ result' = [r |-> "Ok", v |-> Null]
  /\ UNCHANGED <<mode, input, source, tokens, statements, cursor, interpreter, stderr,
                 exit_code, scanned, scanner, invocation>>

ParseNext == ParseDeclaration \/ ParseEnd

ParseSpec == ParseInit /\ [][ParseNext]_vars

(***************************************************************************)
(* Environment::assign on its own                                          *)
(***************************************************************************)

\* The names and the depth of the chains of environments.
Names == {"a", "b"}
MaxDepth == 3

\* The bindings of a frame: some of the names, bound to 0.
FrameValues == UNION {[names -> {Number(0)}] : names \in SUBSET Names}

\* A chain of frames, each enclosed by the one before it; the names of
\* frame i are bound to 10 * (i - 1), so that a value tells its frame.
Chain(values) ==
  [i \in 1 .. Len(values) |->
     [values |-> [n \in DOMAIN values[i] |-> Number(10 * (i - 1))],
      enclosing |-> i - 1]]

EnvInit ==
  /\ mode = "assign"
  /\ input = <<>>
  /\ pc = "call"
  /\ source = <<>>
  /\ tokens = <<>>
  /\ statements = <<>>
  /\ cursor = 1
  /\ \E n \in 1 .. MaxDepth : \E values \in [1 .. n -> FrameValues] :
       interpreter = [Interpreter_new EXCEPT !.envs = Chain(values), !.environment = n]
  /\ stderr = <<>>
  /\ result = NoResult
  /\ exit_code = -1
  /\ scanned = 0
  /\ scanner = Scanner_new(<<>>)
  /\ invocation = NoCall

\* receiver.assign(name, Number(1)) for a frame of the chain and a name.
EnvAssign ==
  /\ pc = "call"
  /\ \E receiver \in 1 .. Len(interpreter.envs), lexeme \in Names \cup {"c"} :
       LET name == Token("Identifier", lexeme, 1, NoLiteral, 0)
           assigned == Environment_assign(interpreter.envs, receiver, name, Number(1))
       IN /\ interpreter' = [interpreter EXCEPT !.envs = assigned.envs]
          /\ result' = IF assigned.r = "Ok" THEN [r |-> "Ok", v |-> Null]
                        ELSE [r |-> assigned.r, v |-> assigned.v]
          /\ invocation' = [function |-> "assign", receiver |-> receiver, name |-> name,
                      value |-> Number(1), envs |-> interpreter.envs]
  /\ pc' = "returned"
  /\ UNCHANGED <<mode, input, source, tokens, statements, cursor, stderr, exit_code,
                 scanned, scanner>>

\* receiver.get_at(distance, name) for a frame of the chain.
EnvGetAt ==
  /\ pc = "call"
  /\ \E receiver \in 1 .. Len(interpreter.envs), distance \in 0 .. MaxDepth,
        lexeme \in Names \cup {"c"} :
       LET got == get_at(interpreter.envs, receiver, distance, lexeme)
       IN /\ result' = [r |-> got.r, v |-> got.v]
          /\ invocation' = [function |-> "get_at", receiver |-> receiver,
                            distance |-> distance, name |-> lexeme,
                            envs |-> interpreter.envs]
  /\ pc' = "returned"
  /\ UNCHANGED <<mode, input, source, tokens, statements, cursor, interpreter, stderr,
                 exit_code, scanned, scanner>>

\* receiver.assign_at(distance, name, Number(1)) for a frame of the chain.
EnvAssignAt ==
  /\ pc = "call"
  /\ \E receiver \in 1 .. Len(interpreter.envs), distance \in 0 .. MaxDepth,
        lexeme \in Names \cup {"c"} :
       LET name == Token("Identifier", lexeme, 1, NoLiteral, 0)
           assigned == assign_at(interpreter.envs, receiver, distance, name, Number(1))
       IN /\ interpreter' = [interpreter EXCEPT !.envs = assigned.envs]
          /\ result' = IF assigned.r = "Ok" THEN [r |-> "Ok", v |-> Null]
                        ELSE [r |-> assigned.r, v |-> assigned.v]
          /\ invocation' = [function |-> "assign_at", receiver |-> receiver,
                            distance |-> distance, name |-> lexeme,
                            value |-> Number(1), envs |-> interpreter.envs]
  /\ pc' = "returned"
  /\ UNCHANGED <<mode, input, source, tokens, statements, cursor, stderr, exit_code,
                 scanned, scanner>>

EnvNext == EnvAssign \/ EnvGetAt \/ EnvAssignAt

EnvSpec == EnvInit /\ [][EnvNext]_vars

(***************************************************************************)
(* Properties                                                              *)
(***************************************************************************)

stdout == interpreter.stdout

\* The run of `program`, as written or on one line, has ended.
Ran(program) == pc = "exit" /\ source \in {program, OneLine(program)}

\* C1: for a use of a name that several enclosing local scopes declare, the
\* resolver records the index of the innermost of them, so that
\* `{ var a = 1; { var a = 2; print a; } }` prints 2.
C1_InnermostScopeRecorded ==
  /\ (source = ShadowProgram /\ pc \in {"resolved", "returned", "exit"}) =>
       \A i \in 1 .. Len(tokens) :
         tokens[i].pos \in DOMAIN interpreter.lexical =>
           /\ TokenKey(tokens[i]) \in DOMAIN interpreter.locals
           /\ interpreter.locals[TokenKey(tokens[i])] = interpreter.lexical[tokens[i].pos]
  /\ Ran(ShadowProgram) => stdout = <<"2">>

\* C2: whenever a use site with a recorded distance is evaluated, the frame
\* at that distance is the one of the lexically enclosing binding, and
\* get_at and assign_at meet neither a missing ancestor nor a missing name;
\* also when a name is used several times on one line.
C2_RecordedDistanceIsLexical ==
  /\ interpreter.mislookups = {}
  /\ result.r = "Panic" =>
       result.v \notin {"No enclosing environment", "Undefined variable"}

\* C3: a reference in a function body that was resolved as global reads the
\* global on every invocation, also after the enclosing block has declared a local
\* of that name: every invocation of `show` prints "global".
C3_GlobalReferenceStaysGlobal ==
  \A before \in 1 .. MaxCalls, after \in 1 .. MaxCalls :
    Ran(ShowProgram(before, after)) =>
      /\ exit_code = 0
      /\ stdout = Repeat(<<"global">>, before + after)

C3_Witness ==
  /\ Ran(ShowProgram(1, 1))
  /\ stdout = <<"global", "global">>

\* C4: closures of one activation of a scope share its bindings, also after
\* the declaring function has returned, and closures of different
\* activations have bindings of their own: the two counters of
\* CounterProgram count 1, 2, 3 and 1, and then 4; in SharedProgram `get`
\* sees the two increments of `inc`, a second invocation of `mk` starts from 0,
\* and the closures of the first invocation still read 2.
C4_ClosuresShareBindings ==
  /\ Ran(CounterProgram) => stdout = <<"1", "2", "3", "1", "4">>
  /\ Ran(SharedProgram) => stdout = <<"2", "0", "2", "1">>

C4_Witness ==
  /\ Ran(SharedProgram)
  /\ stdout = <<"2", "0", "2", "1">>
  /\ \E i \in 1 .. Len(interpreter.frames), j \in 1 .. Len(interpreter.frames) :
       /\ interpreter.frames[i].frame # interpreter.frames[j].frame
       /\ interpreter.frames[i].closure = interpreter.frames[j].closure
       /\ interpreter.frames[i].closure # globals

\* C5: execute_block leaves the current environment as it found it, however
\* the block ends; between top-level statements, and after one has failed,
\* the current environment is the globals.
C5_EnvironmentRestored ==
  /\ ~interpreter.unrestored
  /\ (pc # "cut" /\ result.r # "Panic") => interpreter.environment = globals

C5_Witness ==
  /\ pc = "returned"
  /\ result.r = "Runtime"
  /\ {"Return", "Runtime"} \subseteq interpreter.exits
  /\ interpreter.environment = globals

\* C6: Lox::run never returns Error::Return: a return signal ends at the
\* invocation of the function whose body raised it, in a file and at the prompt.
C6_ReturnNeverEscapes == result.r # "Return"

C6_Witness ==
  /\ mode = "repl"
  /\ pc = "returned"
  /\ result.r = "Ok"
  /\ "Return" \in interpreter.exits
  /\ stdout = <<"> ", "3">>

\* C7: the body of a user function runs in a new environment whose parent
\* is the closure of the function, whoever calls it; `return v` in a block,
\* an if-branch or a loop of the body ends the body at once with v as the
\* result of the invocation, and a body that ends without `return` yields nil.
C7_CallFrameAndReturn ==
  /\ \A i \in 1 .. Len(interpreter.frames) :
       /\ interpreter.envs[interpreter.frames[i].frame].enclosing
            = interpreter.frames[i].closure
       /\ \A j \in 1 .. i - 1 :
            interpreter.frames[j].frame # interpreter.frames[i].frame
  /\ (pc = "exit" /\ source = ReturnProgram) => stdout = <<"1", "x", "1", "A", "nil">>
  /\ Ran(ClosureParentProgram) => stdout = <<"x">>

C7_Witness ==
  /\ Ran(ClosureParentProgram)
  /\ \E i \in 1 .. Len(interpreter.frames) :
       interpreter.frames[i].closure # interpreter.frames[i].caller

\* C8: `init` called on an instance yields the instance, also when its body
\* executes `return;`: InitProgram prints "Foo instance".
C8_InitYieldsInstance ==
  Ran(InitProgram) => stdout = <<"Foo instance">>

\* C9: `a and b` parses, without a diagnostic, to a Logical expression with
\* the operator `and`, which binds tighter than `or`; it yields a when a is
\* falsy, without evaluating b.
C9_AndParses ==
  /\ (source = AndProgram /\ pc \in {"parsed", "resolved", "returned", "exit"}) =>
       /\ stderr = <<>>
       /\ Len(statements) = 1
       /\ statements[1].type = "Print"
       /\ statements[1].expression.type = "Logical"
       /\ statements[1].expression.operator.token_type = "And"
  /\ Ran(AndProgram) => stdout = <<"false">>
  /\ (source = OrAndProgram /\ pc \in {"parsed", "resolved", "returned", "exit"}) =>
       /\ stderr = <<>>
       /\ Len(statements) = 1
       /\ statements[1].type = "Var"
       /\ statements[1].initializer.type = "Logical"
       /\ statements[1].initializer.operator.token_type = "Or"
       /\ statements[1].initializer.right.type = "Logical"
       /\ statements[1].initializer.right.operator.token_type = "And"

\* What `print` writes for the value of an operand lexeme, and whether the
\* value is truthy.
OperandText(lexeme) ==
  IF lexeme \in DOMAIN StringLexemes THEN StringLexemes[lexeme] ELSE lexeme

OperandTruthy(lexeme) == lexeme \notin {"nil", "false"}

\* C10: in `L() or R()` the right operand is evaluated exactly when the left
\* one is nil or false, and the result is the value of the left operand when
\* that is truthy and the value of the right operand otherwise.
C10_OrShortCircuit ==
  \A l \in OperandLexemes, r \in OperandLexemes :
    Ran(OrProgram(l, r)) =>
      stdout = IF OperandTruthy(l) THEN <<"A", OperandText(l)>>
               ELSE <<"A", "B", OperandText(r)>>

C10_Witness ==
  /\ Ran(OrProgram("0", "nil"))
  /\ stdout = <<"A", "0">>

\* The diagnostics of the parser and of the resolver for the source of the
\* current run.
ParserDiagnostics == parse(Parser_new(tokens)).p.stderr

ResolverDiagnosed ==
  resolve_stmts(Resolver_new(EmptyMap, EmptyMap), statements).had_error

envs == interpreter.envs

\* C11: when the parser has reported a diagnostic for a source, also one
\* reported outside panic mode, no statement of the source is executed:
\* standard output and the environments stay as they are.
C11_NoExecutionAfterParseError ==
  [][(pc = "resolved" /\ ParserDiagnostics # <<>>) =>
       (stdout' = stdout /\ envs' = envs)]_vars

\* C12: a run on a file ends with exit code 65 when the parser or the
\* resolver reported an error, with 70 when evaluation raised a runtime
\* error, and with 0 only when there was no error.
C12_ExitCodes ==
  (mode = "file" /\ pc = "exit") =>
    /\ stderr # <<>> => exit_code = 65
    /\ result.r = "Runtime" => exit_code = 70
    /\ exit_code = 0 => (stderr = <<>> /\ result.r = "Ok")

\* C13: when the resolver reports a diagnostic for a program, no statement
\* of the program is executed: the run does not reach the evaluator, and
\* standard output and the environments stay as they are.
C13_NoExecutionAfterResolverError ==
  [][(pc \in {"parsed", "resolved"} /\ ResolverDiagnosed) =>
       (pc' # "resolved" /\ stdout' = stdout /\ envs' = envs)]_vars

C13_Witness ==
  /\ mode = "file"
  /\ pc = "exit"
  /\ source = TopLevelReturnProgram
  /\ exit_code = 0
  /\ \E i \in 1 .. Len(stderr) : stderr[i].message = "Cannot return from top-level code."
  /\ stdout = <<>>
  /\ envs = Interpreter_new.envs

\* C15: after a parse error synchronize stops behind a `;` or in front of
\* one of class, fun, var, for, if, while, print, return, and the parser
\* goes on with the declaration that starts there: a class declaration
\* after a statement without its `;` is parsed as a class declaration.
C15_SynchronizeStopsAtDeclaration ==
  /\ (source = SyncVarProgram /\ pc = "parsed") =>
       /\ Len(statements) = 3
       /\ statements[1].type = "Null"
       /\ statements[2].type = "Var"
       /\ statements[3].type = "Print"
  /\ (source = SyncClassProgram /\ pc = "parsed") =>
       /\ Len(statements) = 3
       /\ statements[1].type = "Null"
       /\ statements[2].type = "Class"
       /\ statements[3].type = "Print"

\* C14: the scanner ends on every source, also on one that ends inside a
\* string literal or holds a character no token starts with, and the token
\* list it returns has Eof as its last token and nowhere else.
C14_ScanningTotal ==
  mode = "scan" =>
    /\ pc # "exit"
    /\ pc = "scanned" =>
         /\ scanner.tokens # <<>>
         /\ \A i \in 1 .. Len(scanner.tokens) :
              scanner.tokens[i].token_type = "Eof" <=> i = Len(scanner.tokens)

\* The frames from `env` outwards, and the first of them that binds `name`
\* (0 when none does).
RECURSIVE FirstBinding(_, _, _)
FirstBinding(frames, env, name) ==
  IF env = 0 THEN 0
  ELSE IF name \in DOMAIN frames[env].values THEN env
  ELSE FirstBinding(frames, frames[env].enclosing, name)

\* C16: assign(name, v) writes v to the name in the first frame, from the
\* receiver outwards, that binds the name, and changes nothing else; when
\* no frame of the chain binds the name, it returns the runtime error
\* "Undefined variable" and changes nothing; no frame gets a new name.
C16_AssignUpdatesFirstBinding ==
  invocation.function = "assign" =>
    LET first == FirstBinding(invocation.envs, invocation.receiver, invocation.name.lexeme)
    IN /\ first # 0 =>
            /\ result.r = "Ok"
            /\ envs = [invocation.envs EXCEPT ![first].values[invocation.name.lexeme] = invocation.value]
       /\ first = 0 =>
            /\ result.r = "Runtime"
            /\ result.v.message = "Undefined variable '" \o invocation.name.lexeme \o "'."
            /\ envs = invocation.envs
       /\ \A i \in 1 .. Len(envs) :
            DOMAIN envs[i].values = DOMAIN invocation.envs[i].values

C16_Witness ==
  /\ invocation.function = "assign"
  /\ invocation.receiver = 3
  /\ invocation.name.lexeme = "a"
  /\ "a" \notin DOMAIN invocation.envs[3].values
  /\ "a" \in DOMAIN invocation.envs[2].values
  /\ "a" \in DOMAIN invocation.envs[1].values
  /\ envs[2].values["a"] = Number(1)
  /\ envs[1].values["a"] = Number(0)

\* The line of the last word of a source.
LastLine(words) == Cardinality({i \in DOMAIN words : words[i] = "\n"}) + 1

\* C17: a call with a number of arguments other than the arity of the callee
\* (a function, the native `clock`, a class with an `init`) ends in a
\* runtime error that carries the closing parenthesis of the call; no
\* statement of the body is executed and no environment is made for the
\* call.  With the right number of arguments the body runs in a new
\* environment.
C17_ArityMismatch ==
  /\ \A program \in ArityMismatchPrograms :
       Ran(program) =>
         /\ result.r = "Runtime"
         /\ result.v.token.token_type = "RightParen"
         /\ result.v.token.line = LastLine(source)
         /\ exit_code = 70
         /\ stdout = <<"x">>
         /\ interpreter.frames = <<>>
         /\ Len(envs) = 1
  /\ Ran(ArityProgram(1)) =>
       (result.r = "Ok" /\ stdout = <<"x", "1">> /\ Len(interpreter.frames) = 1)

C17_Witness ==
  /\ pc = "exit" /\ source = ArityProgram(2)
  /\ result.r = "Runtime"
  /\ result.v.message = "Expected 1 arguments but got 2."
  /\ result.v.token.lexeme = ")"
  /\ stdout = <<"x">>

\* C18: an instance of a class B declared `class B < A` answers a method
\* with the one B defines, and otherwise with the one of A, also through a
\* longer chain of superclasses; `super.hi()` in a method of B runs the
\* `hi` of A on the same instance, so that the source with `super` prints A
\* and then B.
C18_SuperclassMethods ==
  /\ Ran(OverrideProgram) => (result.r = "Ok" /\ stdout = <<"B">>)
  /\ Ran(InheritProgram) => (result.r = "Ok" /\ stdout = <<"A">>)
  /\ Ran(InheritChainProgram) => (result.r = "Ok" /\ stdout = <<"A">>)
  /\ Ran(SuperProgram) => (result.r = "Ok" /\ stdout = <<"A", "B">>)

\* No environment that is the closure of a method stored in a class binds
\* `this`.
ClosuresWithoutThis ==
  \A c \in DOMAIN interpreter.classes :
    \A name \in DOMAIN interpreter.classes[c].methods :
      "this" \notin DOMAIN envs[interpreter.classes[c].methods[name].closure].values

\* C19: a method taken from an instance keeps that instance as `this` on
\* every later call, also when it is called through a variable or through a
\* field of another instance: the calls print the field of the instance the
\* method was taken from.  The method stored in the class stays the one
\* the declaration made, and its closure never binds `this`.
C19_BoundMethodKeepsThis ==
  /\ ClosuresWithoutThis
  /\ Ran(BoundMethodProgram) =>
       /\ result.r = "Ok"
       /\ stdout = <<"x", "y", "x", "x", "y">>
       /\ interpreter.classes[1].methods =
            class_methods_map(statements[1].methods, globals, EmptyMap)

C19_Witness ==
  /\ pc = "exit" /\ source = BoundMethodProgram
  /\ stdout = <<"x", "y", "x", "x", "y">>
  /\ interpreter.instances[2].fields["f"].closure # interpreter.classes[1].methods["name"].closure
  /\ envs[interpreter.instances[2].fields["f"].closure].values["this"] = [kind |-> "Instance", ref |-> 1]

\* C20: `l == r` is true exactly when the two operands are the same value:
\* nil only equals nil, values of different variants are never equal, and a
\* boolean, a number, a string, a function, a class and an instance each
\* equal themselves; `l != r` is the opposite.  The operands of EqLexemes
\* denote pairwise different values.
C20_Equality ==
  \A l \in EqLexemes, r \in EqLexemes :
    Ran(EqProgram(l, r)) =>
      stdout = IF l = r THEN <<"true", "false">> ELSE <<"false", "true">>

\* C21: at the prompt, where the lines are run one after the other on the
\* same interpreter, a use site that refers to a global variable is never
\* found in the side table: every use site that was looked up at another
\* distance than its own is a local one of the line that is evaluated.
C21_SideTableOfOwnSource ==
  mode = "repl" =>
    \A pos \in interpreter.mislookups : pos \in DOMAIN interpreter.lexical

\* C22: in file mode standard output holds the lines of the executed
\* `print` statements and nothing else: it is empty until the first
\* statement is executed, whatever the scanner, the parser and the resolver
\* did, and `print 1 + 2 * 3;` writes the one line `7`.
C22_StdoutIsPrintedLines ==
  /\ (mode = "file" /\ pc \in {"read", "scanned", "parsed"}) => stdout = <<>>
  /\ (mode = "file" /\ pc = "resolved" /\ cursor = 1) => stdout = <<>>
  /\ Ran(FactorProgram) => stdout = <<"7">>

\* The messages written to standard error, in order.
Messages == [i \in DOMAIN stderr |-> stderr[i].message]

\* C23: the resolver reports every `return` outside a function or method,
\* and every `return` with a value directly in a method `init`; it reports
\* neither a bare `return;` in `init` nor a `return` with a value in a
\* function nested in `init`, and after a function or method the kind of
\* the enclosing function counts again.
C23_ReturnDiagnostics ==
  \A c \in ReturnCases :
    Ran(c.source) =>
      /\ Messages = c.diagnostics
      /\ c.diagnostics = <<>> => (result.r = "Ok" /\ exit_code = 0)

C23_Witness ==
  /\ pc = "exit"
  /\ source = InInit(<<"fun", "g", "(", ")", "{", "return", "1", ";", "}", "\n",
                       "return", "2", ";">>)
  /\ Messages = <<FromInitializer>>
  /\ stderr[1].line = 2

AlreadyDeclared == "Variable with this name already declared in this scope."

\* C24: a variable, function, class or parameter whose name is already
\* declared in the same local scope is reported by the resolver, once for
\* each such declaration; a second declaration at global scope and a
\* declaration that shadows one of an outer scope are not.
C24_DuplicateDeclaration ==
  \A c \in DeclareCases :
    Ran(c.source) =>
      /\ Messages = [i \in 1 .. c.diagnostics |-> AlreadyDeclared]
      /\ c.diagnostics = 0 => (result.r = "Ok" /\ exit_code = 0)

C24_Witness ==
  /\ pc = "exit"
  /\ source = <<"fun", "f", "(", "a", ")", "{", "var", "a", "=", "1", ";", "}">>
  /\ Messages = <<AlreadyDeclared>>
  /\ interpreter.envs = Interpreter_new.envs

\* C25: a runtime error raised by a statement ends the run: it reaches the
\* driver as it was raised, through the block, the loop and the function
\* call around the statement, no later statement is executed, and what the
\* statements before it printed, bound and wrote into fields stays.
C25_RuntimeErrorAborts ==
  /\ Ran(RuntimeErrorProgram) =>
       /\ result.r = "Runtime"
       /\ result.v.message = "Operand must be a number"
       /\ result.v.token.token_type = "Minus"
       /\ result.v.token.line = (IF source = RuntimeErrorProgram THEN 4 ELSE 1)
       /\ exit_code = 70
       /\ stdout = <<"x">>
       /\ envs[globals].values["a"] = Number(3)
       /\ interpreter.instances[1].fields = [n |-> Number(2)]
       /\ cursor = 5
  /\ Ran(RuntimeErrorTopProgram) =>
       /\ result.r = "Runtime"
       /\ result.v.message = "Operands must be two numbers or two strings"
       /\ result.v.token.token_type = "Plus"
       /\ exit_code = 70
       /\ stdout = <<"x">>
       /\ cursor = 2

C25_Witness ==
  /\ pc = "exit" /\ source = RuntimeErrorProgram
  /\ result.r = "Runtime"
  /\ stdout = <<"x">>
  /\ Len(interpreter.frames) = 1
  /\ "Runtime" \in interpreter.exits

\* C26: a call evaluates its callee, then its arguments from left to
\* right, and only then looks at what the callee is: the callee and every
\* argument have printed, in that order, when the call fails because the
\* callee is not callable or takes another number of arguments, and an
\* argument that raises an error keeps the arguments after it from being
\* evaluated.
C26_CallEvaluationOrder ==
  \A c \in CallCases :
    Ran(c.source) =>
      /\ result.r = "Runtime"
      /\ result.v.message = c.message
      /\ stdout = c.output

C26_Witness ==
  /\ pc = "exit"
  /\ source = WithPrinter(<<"g", "(">> \o P("1") \o <<",">> \o P("2") \o <<")", ";">>)
  /\ result.v.message = "Expected 0 arguments but got 2."
  /\ stdout = <<"1", "2">>
  /\ Len(interpreter.frames) = 2

\* The frame reached from `env` by following `distance` links `enclosing`.
RECURSIVE Hops(_, _, _)
Hops(frames, env, distance) ==
  IF distance = 0 THEN env ELSE Hops(frames, frames[env].enclosing, distance - 1)

\* The number of frames that enclose `env`.
RECURSIVE Depth(_, _)
Depth(frames, env) ==
  IF frames[env].enclosing = 0 THEN 0 ELSE 1 + Depth(frames, frames[env].enclosing)

\* C27: for a distance that is not greater than the depth of the receiver,
\* get_at reads and assign_at writes the frame that is `distance` links
\* away from the receiver, the receiver itself for 0, and no other frame:
\* get_at answers with the binding of the name in that frame and fails when
\* the frame has none, whatever the other frames bind; assign_at binds the
\* name in that frame and leaves the other names of the frame and all
\* other frames as they were.
C27_AtDistance ==
  (/\ invocation.function \in {"get_at", "assign_at"}
   /\ invocation.distance <= Depth(invocation.envs, invocation.receiver)) =>
    LET target == Hops(invocation.envs, invocation.receiver, invocation.distance)
        before == invocation.envs[target].values
    IN /\ invocation.function = "get_at" =>
            /\ envs = invocation.envs
            /\ IF invocation.name \in DOMAIN before
                 THEN result = [r |-> "Ok", v |-> before[invocation.name]]
                 ELSE result.r = "Panic"
       /\ invocation.function = "assign_at" =>
            /\ result.r = "Ok"
            /\ DOMAIN envs = DOMAIN invocation.envs
            /\ \A i \in DOMAIN envs : i # target => envs[i] = invocation.envs[i]
            /\ envs[target].enclosing = invocation.envs[target].enclosing
            /\ DOMAIN envs[target].values = DOMAIN before \cup {invocation.name}
            /\ envs[target].values[invocation.name] = invocation.value
            /\ \A n \in DOMAIN before :
                 n # invocation.name => envs[target].values[n] = before[n]

C27_Witness ==
  /\ invocation.function = "assign_at"
  /\ invocation.receiver = 3 /\ invocation.distance = 1 /\ invocation.name = "a"
  /\ \A i \in 1 .. 3 : DOMAIN invocation.envs[i].values = {"a", "b"}
  /\ envs[3].values = [a |-> Number(20), b |-> Number(20)]
  /\ envs[2].values = [a |-> Number(1), b |-> Number(10)]
  /\ envs[1].values = [a |-> Number(0), b |-> Number(0)]

\* C28: the value of an assignment to a field is the value assigned, as it
\* is for an assignment to a variable: `a.x = b.y = 1` stores 1 in b.y and
\* in a.x, `print a.x = 2;` prints 2 and `print c = 3;` prints 3.
C28_SetYieldsValue ==
  Ran(SetProgram) =>
    /\ result.r = "Ok"
    /\ stdout = <<"1", "1", "2", "3">>
    /\ interpreter.instances[2].fields = [y |-> Number(1)]
    /\ interpreter.instances[1].fields = [x |-> Number(2)]

\* The resolver, fresh but for the side table, after the statements of the
\* source.
Resolved ==
  resolve_stmts(Resolver_new(interpreter.locals, interpreter.lexical), statements)

Balanced(rs) ==
  rs.panic \/ (/\ ~rs.unbalanced
               /\ rs.scopes = <<>>
               /\ rs.current_function = "None"
               /\ rs.current_class = "None")

\* C29: the resolver leaves every statement, nested or not, with the scope
\* stack as deep as it found it and with current_function and current_class
\* as it found them, also when it has reported diagnostics inside the
\* statement; after the statements of a source the stack of a fresh
\* resolver is empty.
C29_ScopesBalanced == pc = "parsed" => Balanced(Resolved)

DiagnosedInside(rs) ==
  /\ ~rs.panic /\ ~rs.unbalanced /\ rs.scopes = <<>>
  /\ [i \in DOMAIN rs.stderr |-> rs.stderr[i].message] = <<AlreadyDeclared, TopLevel>>

C29_Witness ==
  /\ pc = "parsed" /\ source = BalanceProgram
  /\ DiagnosedInside(Resolved)

\* C30: Parser::parse comes to its end on every list of tokens that ends
\* with Eof: every turn of its loop returns, leaves the cursor further on
\* than it found it and not beyond the Eof, and so the loop ends.
C30_ParseTerminates ==
  [][(mode = "parse" /\ pc = "parse" /\ ~is_at_end(invocation.parser)) =>
       /\ pc' = "parse"
       /\ invocation'.parser.current > invocation.parser.current
       /\ invocation'.parser.current < Len(tokens)]_vars

====
